---- MODULE Spec2Model ----
(***************************************************************************)
(* Model of the "Mixture of Claudes" expert dispatcher: the task selector  *)
(* (analyze_task) and the synthesizer (synthesize_experts, in both copies  *)
(* the repository carries), with the code locator the synthesizer calls.   *)
(* Every tool call is stateless; the state below is the last call made,    *)
(* its input and the value it returned.                                    *)
(***************************************************************************)
EXTENDS Integers, Sequences, FiniteSets, TLC

\* op      the tool call being served ("none" when the server is idle)
\* arg     the input object of that call
\* ret     the object the call returned
\* path    for synthesize_experts: "returned" from the try block, or "caught"
\* fedBack the unifiedPlan a caller sent back as the actions of a second call
\* locatorCalls the calls the tool made to CodeLocatorExpertTool.execute while
\*         serving the call, each with its input and the result it returned
VARIABLES op, arg, ret, path, fedBack, locatorCalls

vars == <<op, arg, ret, path, fedBack, locatorCalls>>

(***************************************************************************)
(* Bounds of the model.                                                    *)
(***************************************************************************)
MaxWords == 3
MaxExperts == 3

(***************************************************************************)
(* Strings.  A string is a TLA+ string; the operators below are the        *)
(* JavaScript string methods the tools use.                                *)
(***************************************************************************)
LowerOf ==
  [A |-> "a", B |-> "b", C |-> "c", D |-> "d", E |-> "e", F |-> "f", G |-> "g",
   H |-> "h", I |-> "i", J |-> "j", K |-> "k", L |-> "l", M |-> "m", N |-> "n",
   O |-> "o", P |-> "p", Q |-> "q", R |-> "r", S |-> "s", T |-> "t", U |-> "u",
   V |-> "v", W |-> "w", X |-> "x", Y |-> "y", Z |-> "z"]

LowerChar(c) == IF c \in DOMAIN LowerOf THEN LowerOf[c] ELSE c

\* The characters i..j of s in lower case, by halves.
RECURSIVE toLowerCaseBetween(_, _, _)
toLowerCaseBetween(s, i, j) ==
  IF i > j THEN ""
  ELSE IF i = j THEN LowerChar(SubSeq(s, i, i))
  ELSE LET mid == (i + j) \div 2
       IN toLowerCaseBetween(s, i, mid) \o toLowerCaseBetween(s, mid + 1, j)

\* String.prototype.toLowerCase
toLowerCase(s) == toLowerCaseBetween(s, 1, Len(s))

\* String.prototype.includes
includes(s, p) ==
  \E i \in 1..(Len(s) - Len(p) + 1) : SubSeq(s, i, i + Len(p) - 1) = p

\* String.prototype.match with a regex that is an alternation of literals,
\* used only for its truthiness: some alternative occurs in s.
match(s, alternatives) == \E p \in alternatives : includes(s, p)

\* Array.prototype.includes, for arrays of strings
arrayIncludes(a, x) == \E i \in 1..Len(a) : a[i] = x

\* Array.prototype.slice(0, n)
slice(a, n) == SubSeq(a, 1, IF Len(a) < n THEN Len(a) ELSE n)

\* Set.prototype.add on an insertion-ordered set kept as a sequence
setAdd(s, x) == IF arrayIncludes(s, x) THEN s ELSE Append(s, x)

RECURSIVE newSetFrom(_, _)
newSetFrom(a, i) ==
  IF i = 0 THEN <<>> ELSE setAdd(newSetFrom(a, i - 1), a[i])

\* [...new Set(a)]: first occurrences, in order
newSet(a) == newSetFrom(a, Len(a))

\* The phrases of up to n words of a vocabulary
RECURSIVE PhrasesOf(_, _)
PhrasesOf(vocabulary, n) ==
  IF n = 0 THEN {""}
  ELSE LET shorter == PhrasesOf(vocabulary, n - 1)
       IN shorter \cup
          {IF p = "" THEN w ELSE p \o " " \o w : p \in shorter, w \in vocabulary}

(***************************************************************************)
(* Task selector: AnalyzeTaskTool.execute                                  *)
(***************************************************************************)
SoftwareEngineerPattern ==
  {"code", "function", "class", "variable", "algorithm", "bug", "implement",
   "refactor", "debug", "syntax"}
PerformancePattern ==
  {"slow", "fast", "optimize", "performance", "speed", "lag", "bottleneck",
   "memory", "cpu", "cache"}
SecurityPattern ==
  {"auth", "login", "password", "vulnerability", "secure", "hack", "encrypt",
   "csrf", "xss", "sql", "token"}
DesignerPattern ==
  {"user", "interface", "design", "layout", "usability", "experience", "ui",
   "ux", "accessibility", "looks"}
DevOpsPattern ==
  {"deploy", "infrastructure", "server", "scaling", "monitoring", "devops",
   "ci", "cd", "docker", "kubernetes"}
EdgeCasesPattern ==
  {"failure", "edge case", "problem", "issue", "concern", "risk", "crash",
   "break"}

\* A selector that has a test for the manager as well.
PrimaryDomainsWithManager ==
  << [id |-> "consult_software_engineer", pattern |-> SoftwareEngineerPattern],
     [id |-> "consult_performance_expert", pattern |-> PerformancePattern],
     [id |-> "consult_security_expert", pattern |-> SecurityPattern],
     [id |-> "consult_designer", pattern |-> DesignerPattern],
     [id |-> "consult_devops_expert", pattern |-> DevOpsPattern],
     [id |-> "consult_manager", pattern |-> {"plan", "timeline", "budget"}] >>

\* The five primary tests, in the order the code makes them.
PrimaryDomains ==
  << [id |-> "consult_software_engineer", pattern |-> SoftwareEngineerPattern],
     [id |-> "consult_performance_expert", pattern |-> PerformancePattern],
     [id |-> "consult_security_expert", pattern |-> SecurityPattern],
     [id |-> "consult_designer", pattern |-> DesignerPattern],
     [id |-> "consult_devops_expert", pattern |-> DevOpsPattern] >>

RECURSIVE PrimaryExperts(_, _)
\* experts after the first n primary tests
PrimaryExperts(query, n) ==
  IF n = 0 THEN <<>>
  ELSE LET before == PrimaryExperts(query, n - 1)
       IN IF match(query, PrimaryDomains[n].pattern)
          THEN setAdd(before, PrimaryDomains[n].id)
          ELSE before

EdgeCasesThreshold == 2
MaxSelected == 3

\* A candidate set that takes the edge-cases expert on the count alone.
CandidateExpertsByCountOnly(query) ==
  LET primary == PrimaryExperts(query, Len(PrimaryDomains))
  IN IF Len(primary) >= 2
     THEN setAdd(primary, "consult_edge_cases_expert")
     ELSE primary

\* A candidate set that gets the default before the edge-case test.
CandidateExpertsDefaultFirst(query) ==
  LET matched == PrimaryExperts(query, Len(PrimaryDomains))
      primary ==
        IF Len(matched) = 0 THEN <<"consult_software_engineer">> ELSE matched
  IN IF Len(primary) >= 2 \/ match(query, EdgeCasesPattern)
     THEN setAdd(primary, "consult_edge_cases_expert")
     ELSE primary

\* The Set `experts` once all six tests are made.
CandidateExperts(query) ==
  LET primary == PrimaryExperts(query, Len(PrimaryDomains))
  IN IF Len(primary) >= EdgeCasesThreshold \/ match(query, EdgeCasesPattern)
     THEN setAdd(primary, "consult_edge_cases_expert")
     ELSE primary

\* A truncation that keeps the last three instead of the first three.
LimitExpertsKeepLast(selected) ==
  IF Len(selected) > 3 THEN SubSeq(selected, Len(selected) - 2, Len(selected))
  ELSE selected

\* selectedExperts.splice(3) when longer than 3
LimitExperts(selected) ==
  IF Len(selected) > MaxSelected THEN SubSeq(selected, 1, MaxSelected)
  ELSE selected

\* A selector without the default.
DefaultFallbackMissing(selected) == selected

\* The default when the set is empty
DefaultFallback(selected) ==
  IF Len(selected) = 0 THEN <<"consult_software_engineer">> ELSE selected

Complexity(n) == IF n = 1 THEN "LOW" ELSE IF n = 2 THEN "MEDIUM" ELSE "HIGH"

\* An efficiency grading that calls three experts heavy.
ContextEfficiencyHeavyAtThree(n) == IF n <= 2 THEN "OPTIMAL" ELSE "HEAVY"

ContextEfficiency(n) ==
  IF n <= 2 THEN "OPTIMAL" ELSE IF n = 3 THEN "MODERATE" ELSE "HEAVY"

AnalyzeTaskExecute(userQuery) ==
  LET query == toLowerCase(userQuery)
      selectedExperts == LimitExperts(DefaultFallback(CandidateExperts(query)))
  IN [selectedExperts |-> selectedExperts,
      complexity |-> Complexity(Len(selectedExperts)),
      contextEfficiency |-> ContextEfficiency(Len(selectedExperts))]

(***************************************************************************)
(* Queries: the two README examples, a query for the manager, a query for  *)
(* the code locator, and every phrase of at most MaxWords words of a       *)
(* vocabulary that has a trigger for each domain, a word that triggers two *)
(* domains ("circuit": ui and ci), a word that looks like a trigger and is *)
(* none ("Security") and a neutral word.                                   *)
(***************************************************************************)
ComplexQuery ==
  "Our login system is slow and users are complaining about security"
SimpleQuery == "Fix this bug in my React component"

Vocabulary ==
  {"code", "slow", "login", "user", "deploy", "crash", "circuit", "Security",
   "please"}

RECURSIVE Phrases(_)
Phrases(n) ==
  IF n = 0 THEN {""}
  ELSE LET shorter == Phrases(n - 1)
       IN shorter \cup
          {IF p = "" THEN w ELSE p \o " " \o w : p \in shorter, w \in Vocabulary}

ManagerQuery == "Urgent: plan the team timeline and budget with the manager"
LocatorQuery == "Where is the sort order of the endpoint set"

Queries ==
  {ComplexQuery, SimpleQuery, ManagerQuery, LocatorQuery} \cup Phrases(MaxWords)

(***************************************************************************)
(* Specification of the selector.                                          *)
(***************************************************************************)
NoValue == [none |-> TRUE]

Init ==
  /\ op = "none"
  /\ arg = NoValue
  /\ ret = NoValue
  /\ path = "none"
  /\ fedBack = <<>>
  /\ locatorCalls = <<>>

\* The host dispatches one call at a time; the tool keeps nothing between calls.
AnalyzeTask(userQuery) ==
  /\ op = "none"
  /\ op' = "analyze_task"
  /\ arg' = [userQuery |-> userQuery]
  /\ ret' = AnalyzeTaskExecute(userQuery)
  /\ path' = "returned"
  /\ UNCHANGED <<fedBack, locatorCalls>>

\* The response is delivered to the caller and the server is idle again.
Respond ==
  /\ op # "none"
  /\ op' = "none"
  /\ arg' = NoValue
  /\ ret' = NoValue
  /\ path' = "none"
  /\ fedBack' = <<>>
  /\ locatorCalls' = <<>>

NextSelect ==
  \/ \E q \in Queries : AnalyzeTask(q)
  \/ Respond

SpecSelect == Init /\ [][NextSelect]_vars

(***************************************************************************)
(* Code locator: CodeLocatorExpertTool, as far as the synthesizer uses it  *)
(* (it reads `locations`).  The repository carries two copies of the       *)
(* module, CodeLocatorExpertTool.ts and the one in part_002; which of them *)
(* "./CodeLocatorExpertTool" resolves to depends on the build, so the      *)
(* copy is part of a call's input in the model.  Neither copy reads        *)
(* keywords or fileExtensions.                                             *)
(***************************************************************************)
\* An optional field is a sequence of length 0 (absent) or 1 (present).
Absent == <<>>
Present(x) == <<x>>
IsPresent(o) == Len(o) = 1
ValueOf(o) == o[1]

Locators == {"CodeLocatorExpertTool.ts", "part_002"}

\* Array.prototype.join
RECURSIVE join(_, _)
join(a, separator) ==
  IF Len(a) = 0 THEN ""
  ELSE IF Len(a) = 1 THEN a[1]
  ELSE join(SubSeq(a, 1, Len(a) - 1), separator) \o separator \o a[Len(a)]

\* extractSearchTerms of CodeLocatorExpertTool.ts
extractSearchTerms(query) ==
  (IF includes(query, "sort") \/ includes(query, "order")
   THEN <<"sort", "order", "ORDER BY", "ASC", "DESC", "orderBy">> ELSE <<>>)
  \o
  (IF includes(query, "database") \/ includes(query, "query")
      \/ includes(query, "sql")
   THEN <<"query", "sql", "database", "db", "select", "where">> ELSE <<>>)
  \o
  (IF includes(query, "contact") \/ includes(query, "name")
      \/ includes(query, "display")
   THEN <<"contact", "name", "display_name", "first_name", "last_name">>
   ELSE <<>>)
  \o
  (IF includes(query, "api") \/ includes(query, "service")
      \/ includes(query, "endpoint")
   THEN <<"api", "service", "endpoint", "controller", "route">> ELSE <<>>)
  \o
  (IF includes(query, "frontend") \/ includes(query, "component")
      \/ includes(query, "ui")
   THEN <<"component", "tsx", "jsx", "react", "vue", "angular">> ELSE <<>>)

\* A strategy that looks at the query alone.
determineSearchStrategyFromQuery(query, searchType) ==
  IF includes(query, "sort") \/ includes(query, "order")
  THEN "Database query analysis - focus on sorting implementation"
  ELSE IF includes(query, "api") \/ includes(query, "endpoint")
  THEN "API layer analysis - focus on service endpoints"
  ELSE IF includes(query, "component") \/ includes(query, "ui")
  THEN "Frontend component analysis - focus on UI components"
  ELSE "General codebase analysis - broad search pattern"

\* if (searchType): an optional string that is set and not empty
determineSearchStrategy(query, searchType) ==
  IF IsPresent(searchType) /\ ValueOf(searchType) # ""
  THEN "Focused search for " \o ValueOf(searchType) \o " constructs"
  ELSE IF includes(query, "sort") \/ includes(query, "order")
  THEN "Database query analysis - focus on sorting implementation"
  ELSE IF includes(query, "api") \/ includes(query, "endpoint")
  THEN "API layer analysis - focus on service endpoints"
  ELSE IF includes(query, "component") \/ includes(query, "ui")
  THEN "Frontend component analysis - focus on UI components"
  ELSE "General codebase analysis - broad search pattern"

CodeLocation(filePath, codeSnippet, confidence, relevance) ==
  [filePath |-> filePath, codeSnippet |-> codeSnippet,
   confidence |-> confidence, relevance |-> relevance]

generateSearchLocations(strategy) ==
  (IF includes(strategy, "sorting")
   THEN << CodeLocation("src/backend/services/",
                        "Search for ORDER BY clauses and sorting logic",
                        "HIGH", "Database sorting implementation"),
           CodeLocation("src/backend/types/",
                        "Look for interface definitions with sorting fields",
                        "MEDIUM", "Data model definitions"),
           CodeLocation("src/components/",
                        "Search for frontend sorting components",
                        "MEDIUM", "UI sorting controls") >>
   ELSE <<>>)
  \o
  (IF includes(strategy, "API") \/ includes(strategy, "service")
   THEN << CodeLocation("src/api/", "Search for API route definitions",
                        "HIGH", "API endpoint implementations"),
           CodeLocation("src/services/",
                        "Look for service layer implementations",
                        "HIGH", "Business logic services") >>
   ELSE <<>>)
  \o
  (IF includes(strategy, "component") \/ includes(strategy, "Frontend")
   THEN << CodeLocation("src/components/", "Search for React/Vue components",
                        "HIGH", "UI component implementations"),
           CodeLocation("src/pages/", "Look for page-level components",
                        "MEDIUM", "Page implementations") >>
   ELSE <<>>)

\* extractSearchTerms of the part_002 copy
extractSearchTerms002(query) ==
  (IF includes(query, "import") \/ includes(query, "from")
   THEN <<"import", "from", "export", "module.exports", "require">>
        \o (IF includes(query, "mealscheduling")
            THEN <<"mealScheduling", "meal", "scheduling">> ELSE <<>>)
        \o (IF includes(query, "assistant")
            THEN <<"assistantOperations", "assistant", "operations">>
            ELSE <<>>)
   ELSE <<>>)
  \o
  (IF includes(query, "sort") \/ includes(query, "order")
   THEN <<"sort", "order", "ORDER BY", "ASC", "DESC", "orderBy">> ELSE <<>>)
  \o
  (IF includes(query, "contact") \/ includes(query, "name")
      \/ includes(query, "display")
   THEN <<"contact", "name", "display_name", "first_name", "last_name">>
   ELSE <<>>)
  \o
  (IF includes(query, "duplicate") \/ includes(query, "same")
      \/ includes(query, "intelligent")
   THEN <<"executeCalendarOperation", "executePlacesOperation",
          "intelligent*handler">>
   ELSE <<>>)

\* generateSearchLocations of the part_002 copy
generateSearchLocations002(searchTerms, strategy) ==
  (IF arrayIncludes(searchTerms, "import")
      \/ arrayIncludes(searchTerms, "mealScheduling")
   THEN << CodeLocation("src/backend/lib/assistantOperations/",
                        "grep -r 'from.*mealScheduling' .",
                        "HIGH", "Find cross-module imports from mealScheduling"),
           CodeLocation(
             "src/backend/lib/assistantOperations/mealSchedulingAssistant.ts",
             "Look for imports at top of file",
             "HIGH", "Main file with problematic imports"),
           CodeLocation("src/backend/services/assistantManagerService.ts",
                        "Check how operations are imported and used",
                        "HIGH", "Service layer using these operations") >>
   ELSE <<>>)
  \o
  (IF arrayIncludes(searchTerms, "executeCalendarOperation")
      \/ arrayIncludes(searchTerms, "intelligent*handler")
   THEN << CodeLocation("**/*Handler.ts",
                        "grep -r 'intelligentHandler' --include='*.ts'",
                        "HIGH", "Find all intelligent handler implementations"),
           CodeLocation(
             "src/backend/",
             "grep -r 'executeCalendarOperation\\|executePlacesOperation' .",
             "HIGH", "Find duplicate operation executions") >>
   ELSE <<>>)
  \o
  (IF includes(strategy, "sorting")
   THEN << CodeLocation("src/backend/services/",
                        "Search for ORDER BY clauses and sorting logic",
                        "HIGH", "Database sorting implementation") >>
   ELSE <<>>)

\* generateSearchRecommendations, the same in both copies
generateSearchRecommendations(searchTerms) ==
  << "Use grep/ripgrep to search for key terms: " \o join(searchTerms, ", ") >>
  \o
  (IF arrayIncludes(searchTerms, "sort") \/ arrayIncludes(searchTerms, "order")
   THEN << "Search for 'ORDER BY' in SQL queries and database files",
           "Look for sorting parameters in API endpoints",
           "Check frontend components for sort controls" >>
   ELSE <<>>)
  \o
  (IF arrayIncludes(searchTerms, "api") \/ arrayIncludes(searchTerms, "service")
   THEN << "Examine API route definitions and handlers",
           "Check service layer for business logic",
           "Look for data transformation logic" >>
   ELSE <<>>)
  \o
  << "Read complete files to understand context",
     "Trace data flow from frontend to backend",
     "Check for related test files" >>

\* generateNextSteps, the same in both copies
generateNextSteps(strategy) ==
  << "Execute targeted searches using the recommended terms",
     "Read and analyze the most relevant files completely",
     "Trace the data flow and identify the specific issue",
     "Provide concrete, code-specific recommendations" >>
  \o
  (IF includes(strategy, "sorting")
   THEN << "Examine the exact ORDER BY clause causing issues",
           "Verify field names match database schema",
           "Check for proper SQL escaping and validation" >>
   ELSE <<>>)

\* The input object of a locator call.
CodeLocatorInput(userQuery, keywords, fileExtensions, searchType) ==
  [userQuery |-> userQuery, keywords |-> keywords,
   fileExtensions |-> fileExtensions, searchType |-> searchType]

\* execute -> analyzeSearchRequirements, of the copy `locator`
CodeLocatorExecute(locator, input) ==
  LET query == toLowerCase(input.userQuery)
      searchTerms ==
        IF locator = "part_002" THEN extractSearchTerms002(query)
        ELSE extractSearchTerms(query)
      searchStrategy == determineSearchStrategy(query, input.searchType)
  IN [locations |->
        IF locator = "part_002"
        THEN generateSearchLocations002(searchTerms, searchStrategy)
        ELSE generateSearchLocations(searchStrategy),
      searchStrategy |-> searchStrategy,
      recommendations |-> generateSearchRecommendations(searchTerms),
      nextSteps |-> generateNextSteps(searchStrategy)]

\* One completed call: what was passed and what came back.
LocatorCall(locator, input) ==
  [input |-> input, result |-> CodeLocatorExecute(locator, input)]

(***************************************************************************)
(* Specification of the code locator called as a tool of its own.  The     *)
(* search type is one of the schema's enumeration or is not given.         *)
(***************************************************************************)
MaxLocatorWords == 2

LocatorVocabulary ==
  {"Sort", "order", "api", "endpoint", "component", "ui", "import",
   "duplicate", "please"}

SearchTypes ==
  {"function", "class", "component", "service", "config", "general"}

CodeLocatorInputs ==
  [userQuery : PhrasesOf(LocatorVocabulary, MaxLocatorWords),
   keywords : {Absent, Present(<<"sort">>)},
   fileExtensions : {Absent},
   searchType : {Absent} \cup {Present(t) : t \in SearchTypes}]

CodeLocate(locator, input) ==
  /\ op = "none"
  /\ op' = "code_locator_expert"
  /\ arg' = [locator |-> locator, input |-> input]
  /\ ret' = CodeLocatorExecute(locator, input)
  /\ path' = "returned"
  /\ UNCHANGED <<fedBack, locatorCalls>>

NextLocate ==
  \/ \E locator \in Locators, input \in CodeLocatorInputs :
       CodeLocate(locator, input)
  \/ Respond

SpecLocate == Init /\ [][NextLocate]_vars

(***************************************************************************)
(* Synthesizer: SynthesizeExpertsTool.  The repository carries two copies: *)
(* the plain one (part_000) and the "executive" one (part_001), which      *)
(* rewrites actions into WHAT:/WHY: form and scores them differently.      *)
(***************************************************************************)
Copies == {"part_000", "part_001"}

PlanLimit == 6
RiskLimit == 3
NextStepsLimit == 5
CriteriaLimit == 4
CriticalThreshold == 3
ConflictHighThreshold == 2
ConsensusThreshold == 3

\* Array.prototype.sort with a comparator that orders by a score:
\* `scores[i]` is the score of `items[i]`.  The sort is stable.
\* A comparator written the wrong way round (aScore - bScore).
sortByScoreAscending(items, scores) ==
  LET n == Len(items)
      Rank(i) ==
        1 + Cardinality({j \in 1..n :
              \/ scores[j] < scores[i]
              \/ scores[j] = scores[i] /\ j < i})
  IN [k \in 1..n |-> items[CHOOSE i \in 1..n : Rank(i) = k]]

\* The comparator bScore - aScore: descending by score, ties in input order.
sortByScore(items, scores) ==
  LET n == Len(items)
      Rank(i) ==
        1 + Cardinality({j \in 1..n :
              \/ scores[j] > scores[i]
              \/ scores[j] = scores[i] /\ j < i})
  IN [k \in 1..n |-> items[CHOOSE i \in 1..n : Rank(i) = k]]

\* getActionPriority of the plain copy
getActionPriorityPlain(action) ==
  LET actionLower == toLowerCase(action)
  IN IF match(actionLower, {"security", "vulnerability", "fix", "patch"}) THEN 10
     ELSE IF match(actionLower, {"test", "validation", "verify"}) THEN 9
     ELSE IF match(actionLower, {"backup", "monitor", "log"}) THEN 8
     ELSE IF match(actionLower, {"implement", "create", "build"}) THEN 7
     ELSE IF match(actionLower, {"optimize", "improve", "enhance"}) THEN 6
     ELSE IF match(actionLower, {"document", "plan", "design"}) THEN 5
     ELSE 1

\* getActionPriority of the executive copy
getActionPriorityExecutive(action) ==
  LET actionLower == toLowerCase(action)
  IN IF includes(actionLower, "what:")
          /\ match(actionLower, {"block", "critical", "immediate"}) THEN 10
     ELSE IF match(actionLower, {"security", "vulnerability", "risk"}) THEN 9
     ELSE IF includes(actionLower, "why:")
          /\ match(actionLower, {"impact", "consequence"}) THEN 8
     ELSE IF match(actionLower, {"resolve", "fix", "address"}) THEN 7
     ELSE IF match(actionLower, {"improve", "enhance", "optimize"}) THEN 6
     ELSE IF match(actionLower, {"plan", "design", "structure"}) THEN 5
     ELSE 1

getActionPriority(copy, action) ==
  IF copy = "part_000" THEN getActionPriorityPlain(action)
  ELSE getActionPriorityExecutive(action)

transformToExecutiveAction(action) ==
  LET actionLower == toLowerCase(action)
  IN IF includes(actionLower, "implement")
     THEN "WHAT: " \o action
          \o ". WHY: Addresses identified need. HOW: LLM determines best approach."
     ELSE IF includes(actionLower, "create") \/ includes(actionLower, "build")
     THEN "WHAT: " \o action
          \o ". WHY: Required functionality. APPROACH: Start simple, iterate."
     ELSE IF includes(actionLower, "refactor") \/ includes(actionLower, "clean")
     THEN "WHAT: " \o action
          \o ". WHY: Improve maintainability. CAUTION: Avoid overengineering."
     ELSE IF includes(actionLower, "test") \/ includes(actionLower, "verify")
     THEN "WHAT: " \o action
          \o ". WHY: Ensure reliability. FOCUS: Critical paths first."
     ELSE "WHAT: " \o action \o ". HOW: Trust LLM to implement effectively."

\* The map over uniqueActions in the executive copy
executiveAction(action) ==
  IF includes(action, "WHAT:") \/ includes(action, "WHY:") THEN action
  ELSE transformToExecutiveAction(action)

\* prioritized.slice(0, 6)
planSlice(prioritized) == slice(prioritized, PlanLimit)

RECURSIVE executiveActions(_, _, _)
\* uniqueActions.map(...) of the executive copy; the plain copy has no map
executiveActions(copy, uniqueActions, n) ==
  IF copy = "part_000" THEN uniqueActions
  ELSE IF n = 0 THEN <<>>
  ELSE Append(executiveActions(copy, uniqueActions, n - 1),
              executiveAction(uniqueActions[n]))

RECURSIVE actionScores(_, _, _)
actionScores(copy, actions, n) ==
  IF n = 0 THEN <<>>
  ELSE Append(actionScores(copy, actions, n - 1),
              getActionPriority(copy, actions[n]))

\* executiveActions.sort((a, b) => score(b) - score(a))
prioritizeActions(copy, actions) ==
  sortByScore(actions, actionScores(copy, actions, Len(actions)))

uniqueToPlan(copy, uniqueActions) ==
  planSlice(prioritizeActions(copy,
              executiveActions(copy, uniqueActions, Len(uniqueActions))))

createUnifiedPlan(copy, actions) == uniqueToPlan(copy, newSet(actions))

\* getRiskScore, the same in both copies
getRiskScore(risk) ==
  LET riskLower == toLowerCase(risk)
  IN IF match(riskLower, {"security", "breach", "vulnerability", "attack"}) THEN 10
     ELSE IF match(riskLower, {"data loss", "corruption", "crash"}) THEN 9
     ELSE IF match(riskLower, {"production", "downtime", "failure"}) THEN 8
     ELSE IF match(riskLower, {"performance", "slow", "timeout"}) THEN 7
     ELSE IF match(riskLower, {"user", "experience", "usability"}) THEN 6
     ELSE IF match(riskLower, {"compliance", "legal", "regulation"}) THEN 8
     ELSE 1

RECURSIVE riskScores(_, _)
riskScores(risks, n) ==
  IF n = 0 THEN <<>>
  ELSE Append(riskScores(risks, n - 1), getRiskScore(risks[n]))

sortRisks(uniqueRisks) ==
  sortByScore(uniqueRisks, riskScores(uniqueRisks, Len(uniqueRisks)))

prioritizeRisks(risks) == sortRisks(newSet(risks))

\* A default of HIGH for an expert that names no priority.
priorityOrHigh(e) ==
  IF IsPresent(e.priority) /\ ValueOf(e.priority) # "" THEN ValueOf(e.priority)
  ELSE "HIGH"

\* e.priority || "MEDIUM"
priorityOrMedium(e) ==
  IF IsPresent(e.priority) /\ ValueOf(e.priority) # "" THEN ValueOf(e.priority)
  ELSE "MEDIUM"

RECURSIVE prioritiesOf(_, _)
\* experts.map(e => e.priority || "MEDIUM")
prioritiesOf(experts, n) ==
  IF n = 0 THEN <<>>
  ELSE Append(prioritiesOf(experts, n - 1), priorityOrMedium(experts[n]))

\* An escalation that counts the HIGH experts instead of all experts.
overallPriorityCountingHigh(experts) ==
  LET priorities == prioritiesOf(experts, Len(experts))
      highs == Cardinality({i \in 1..Len(priorities) : priorities[i] = "HIGH"})
  IN IF highs >= 3 THEN "CRITICAL"
     ELSE IF highs >= 1 THEN "HIGH"
     ELSE IF arrayIncludes(priorities, "MEDIUM") THEN "MEDIUM"
     ELSE "LOW"

\* A grading that has MEDIUM for every case without a HIGH.
overallPriorityMediumWithoutHigh(experts) ==
  LET priorities == prioritiesOf(experts, Len(experts))
      hasHigh == arrayIncludes(priorities, "HIGH")
      hasCritical == Len(priorities) >= 3 /\ hasHigh
  IN IF hasCritical THEN "CRITICAL"
     ELSE IF hasHigh THEN "HIGH"
     ELSE "MEDIUM"

overallPriorityOf(experts) ==
  LET priorities == prioritiesOf(experts, Len(experts))
      hasHigh == arrayIncludes(priorities, "HIGH")
      hasCritical == Len(priorities) >= CriticalThreshold /\ hasHigh
  IN IF hasCritical THEN "CRITICAL"
     ELSE IF hasHigh THEN "HIGH"
     ELSE IF arrayIncludes(priorities, "MEDIUM") THEN "MEDIUM"
     ELSE "LOW"

MultipleHighMessage(copy) ==
  IF copy = "part_000"
  THEN "Multiple high-priority concerns identified - address security and performance first"
  ELSE "WHAT: Multiple critical issues identified. WHY: Risk compounds. APPROACH: Address highest impact first, let LLM sequence implementation."
ConsensusMessage(copy) ==
  IF copy = "part_000"
  THEN "Multi-expert consensus needed - prioritize by business impact and technical risk"
  ELSE "WHAT: Complex situation requiring synthesis. WHY: Multiple perspectives matter. APPROACH: Define clear goals, trust LLM execution."
AlignedMessage(copy) ==
  IF copy = "part_000"
  THEN "Expert opinions aligned - proceed with recommended approach"
  ELSE "WHAT: Clear path forward. WHY: Expert consensus achieved. APPROACH: Execute recommendations, avoid overcomplication."

\* A resolution that tests the number of experts before the HIGH count.
resolveConflictsByCountFirst(copy, experts) ==
  LET highPriorityCount ==
        Cardinality({i \in 1..Len(experts) : experts[i].priority = Present("HIGH")})
  IN IF Len(experts) >= 3 THEN ConsensusMessage(copy)
     ELSE IF highPriorityCount >= 2 THEN MultipleHighMessage(copy)
     ELSE AlignedMessage(copy)

resolveConflicts(copy, experts) ==
  LET highPriorityCount ==
        Cardinality({i \in 1..Len(experts) : experts[i].priority = Present("HIGH")})
  IN IF highPriorityCount >= ConflictHighThreshold THEN MultipleHighMessage(copy)
     ELSE IF Len(experts) >= ConsensusThreshold THEN ConsensusMessage(copy)
     ELSE AlignedMessage(copy)

generateSuccessCriteria(copy, query) ==
  LET plain == copy = "part_000"
      baseline ==
        IF plain THEN <<"Implementation completed successfully">>
        ELSE <<"WHAT: Core objective achieved. MEASURE: User value delivered.">>
      performance ==
        IF ~match(query, {"performance", "slow", "speed"}) THEN <<>>
        ELSE IF plain
        THEN <<"Performance targets met", "No performance regressions">>
        ELSE <<"WHAT: Performance acceptable to users. WHY: User satisfaction matters most.">>
      security ==
        IF ~match(query, {"security", "auth", "login"}) THEN <<>>
        ELSE IF plain
        THEN <<"Security vulnerabilities addressed", "Compliance requirements met">>
        ELSE <<"WHAT: System secure. WHY: User trust is paramount.">>
      user ==
        IF ~match(query, {"user", "interface", "design"}) THEN <<>>
        ELSE IF plain
        THEN <<"User experience improved", "Accessibility requirements met">>
        ELSE <<"WHAT: Users can accomplish goals. WHY: Usability drives adoption.">>
      bug ==
        IF ~match(query, {"bug", "error", "fix"}) THEN <<>>
        ELSE IF plain THEN <<"Bug resolved", "No new issues introduced">>
        ELSE <<"WHAT: Issue resolved. WHY: Restore functionality. HOW: LLM's discretion.">>
      criteria ==
        baseline \o performance \o security \o user \o bug
          \o <<"All tests passing", "Documentation updated">>
  IN slice(criteria, CriteriaLimit)

\* experts.flatMap(e => e.<field> || [])
RECURSIVE flatMapField(_, _, _)
flatMapField(experts, field, n) ==
  IF n = 0 THEN <<>>
  ELSE flatMapField(experts, field, n - 1)
       \o (IF IsPresent(experts[n][field]) THEN ValueOf(experts[n][field])
           ELSE <<>>)

\* The object returned from the catch block.
\* A fallback that leaves the "Parsing error:" label out.
FallbackResponseBareMessage(message) ==
  [overallPriority |-> "MEDIUM",
   conflictResolution |-> message,
   unifiedPlan |->
     <<"Clarify requirements", "Implement step by step", "Test thoroughly">>,
   criticalRisks |-> <<"Unclear requirements", "Implementation complexity">>,
   nextSteps |-> <<"Review expert feedback", "Create implementation plan">>,
   successCriteria |->
     <<"Requirements met", "No regressions", "Stakeholder approval">>,
   codeLocations |-> Absent]

FallbackResponse(message) ==
  [overallPriority |-> "MEDIUM",
   conflictResolution |-> "Parsing error: " \o message,
   unifiedPlan |->
     <<"Clarify requirements", "Implement step by step", "Test thoroughly">>,
   criticalRisks |-> <<"Unclear requirements", "Implementation complexity">>,
   nextSteps |-> <<"Review expert feedback", "Create implementation plan">>,
   successCriteria |->
     <<"Requirements met", "No regressions", "Stakeholder approval">>,
   codeLocations |-> Absent]

(***************************************************************************)
(* JSON.parse(input.expertResponses).  A document is what the text decodes *)
(* to: "malformed" (JSON.parse throws a SyntaxError), the JSON null, a     *)
(* number, a string, an array of elements or an object whose values are    *)
(* elements.  An element is an expert object, the JSON null or a scalar.   *)
(***************************************************************************)
Expert(priority, immediateActions, risks) ==
  [isNull |-> FALSE, priority |-> priority,
   immediateActions |-> immediateActions, risks |-> risks]

NullElement ==
  [isNull |-> TRUE, priority |-> Absent, immediateActions |-> Absent,
   risks |-> Absent]

\* A number, a boolean or a string as an element: reading priority,
\* immediateActions or risks of it gives undefined, as of an empty object.
ScalarElement == Expert(Absent, Absent, Absent)

\* Object.values of a string: its characters
RECURSIVE charactersOf(_, _)
charactersOf(text, n) ==
  IF n = 0 THEN <<>> ELSE Append(charactersOf(text, n - 1), ScalarElement)

\* The malformed texts of the model all fail at their second character.
JSONSyntaxError(text) ==
  IF text = "" THEN "Unexpected end of JSON input"
  ELSE "Unexpected token " \o SubSeq(text, 2, 2) \o " in JSON at position 1"

NullToObjectError == "Cannot convert undefined or null to object"
NullPropertyError == "Cannot read properties of null (reading 'priority')"

(***************************************************************************)
(* A JSON object is written as members, a key and a value each: `keys` and *)
(* `items` of a document of kind "object" are the keys and the values in   *)
(* the order of the text.  JSON.parse defines the members one by one: a    *)
(* key written again gets the later value and keeps its place.             *)
(* Object.values lists the values of the integer keys first, in ascending  *)
(* numeric order, then those of the other keys in the order they were      *)
(* defined.                                                                *)
(***************************************************************************)
Digits == "0123456789"

isDigit(c) == \E d \in 1..Len(Digits) : SubSeq(Digits, d, d) = c

digitValue(c) == (CHOOSE d \in 1..Len(Digits) : SubSeq(Digits, d, d) = c) - 1

\* A key that is a canonical array index: digits without a leading zero.
isArrayIndex(key) ==
  /\ Len(key) > 0
  /\ \A i \in 1..Len(key) : isDigit(SubSeq(key, i, i))
  /\ Len(key) > 1 => SubSeq(key, 1, 1) # "0"

RECURSIVE numberOf(_, _)
numberOf(key, n) ==
  IF n = 0 THEN 0
  ELSE 10 * numberOf(key, n - 1) + digitValue(SubSeq(key, n, n))

Property(key, value) == [key |-> key, value |-> value]

\* CreateDataProperty on the object under construction
defineProperty(properties, key, value) ==
  IF \E i \in 1..Len(properties) : properties[i].key = key
  THEN [i \in 1..Len(properties) |->
          IF properties[i].key = key THEN Property(key, value)
          ELSE properties[i]]
  ELSE Append(properties, Property(key, value))

RECURSIVE parseObject(_, _, _)
\* The properties of the decoded object, in the order they were defined.
parseObject(keys, values, n) ==
  IF n = 0 THEN <<>>
  ELSE defineProperty(parseObject(keys, values, n - 1), keys[n], values[n])

\* An Object.values that lists the values as the text has them.
ObjectValuesAsWritten(keys, values) == values

\* Object.values(JSON.parse(text)) of an object
ObjectValues(keys, values) ==
  LET properties == parseObject(keys, values, Len(keys))
      n == Len(properties)
      Before(j, i) ==
        LET kj == properties[j].key
            ki == properties[i].key
        IN IF isArrayIndex(kj) /\ isArrayIndex(ki)
           THEN numberOf(kj, Len(kj)) < numberOf(ki, Len(ki))
           ELSE IF isArrayIndex(kj) THEN TRUE
           ELSE IF isArrayIndex(ki) THEN FALSE
           ELSE j < i
      Rank(i) == 1 + Cardinality({j \in 1..n : Before(j, i)})
  IN [k \in 1..n |-> properties[CHOOSE i \in 1..n : Rank(i) = k].value]

\* Array.isArray(expertData) ? expertData : Object.values(expertData)
expertsOf(doc) ==
  IF doc.kind = "array" THEN doc.items
  ELSE IF doc.kind = "object" THEN ObjectValues(doc.keys, doc.items)
  ELSE IF doc.kind = "string" THEN charactersOf(doc.text, Len(doc.text))
  ELSE <<>>

\* A decoding in which only the JSON syntax can fail.
thrownByDecodeOnly(doc) ==
  IF doc.kind = "malformed" THEN Present(JSONSyntaxError(doc.text))
  ELSE Absent

\* What the try block throws, if it throws: the error message.
thrownBy(doc) ==
  IF doc.kind = "malformed" THEN Present(JSONSyntaxError(doc.text))
  ELSE IF doc.kind = "null" THEN Present(NullToObjectError)
  ELSE IF \E i \in 1..Len(expertsOf(doc)) : expertsOf(doc)[i].isNull
  THEN Present(NullPropertyError)
  ELSE Absent

(***************************************************************************)
(* The lists of a decoded expert may hold values that are not strings.     *)
(* The model writes such a value as a number, and a number as its digits   *)
(* behind a "#", which no string of the model begins with.  A field that   *)
(* holds a single value instead of a list gives flatMap that one value, as *)
(* a one-element list does.  A string method called on a number is a       *)
(* TypeError.                                                              *)
(***************************************************************************)
isString(item) == Len(item) = 0 \/ SubSeq(item, 1, 1) # "#"

AllStrings(items) == \A i \in 1..Len(items) : isString(items[i])

IncludesNotAFunction == "action.includes is not a function"
ActionToLowerCaseNotAFunction == "action.toLowerCase is not a function"
RiskToLowerCaseNotAFunction == "risk.toLowerCase is not a function"

\* What createUnifiedPlan throws.  The executive copy calls action.includes
\* on every distinct action; the plain copy calls action.toLowerCase from
\* the sort comparator, which runs when there are two actions to compare.
thrownByPlan(copy, actions) ==
  LET uniqueActions == newSet(actions)
  IN IF AllStrings(uniqueActions) THEN Absent
     ELSE IF copy = "part_001" THEN Present(IncludesNotAFunction)
     ELSE IF Len(uniqueActions) >= 2 THEN Present(ActionToLowerCaseNotAFunction)
     ELSE Absent

\* What prioritizeRisks throws: risk.toLowerCase from the sort comparator.
thrownByRisks(risks) ==
  LET uniqueRisks == newSet(risks)
  IN IF ~AllStrings(uniqueRisks) /\ Len(uniqueRisks) >= 2
     THEN Present(RiskToLowerCaseNotAFunction)
     ELSE Absent

\* What the try block throws, in the order of its statements.
thrownInTry(input) ==
  LET doc == input.expertResponses
      decoding == thrownBy(doc)
      experts == expertsOf(doc)
      planning ==
        thrownByPlan(input.copy,
                     flatMapField(experts, "immediateActions", Len(experts)))
  IN IF IsPresent(decoding) THEN decoding
     ELSE IF IsPresent(planning) THEN planning
     ELSE thrownByRisks(flatMapField(experts, "risks", Len(experts)))

\* A synthesizer that passes a search type of its own to the locator.
LocatorCallsWithSearchType(input) ==
  IF input.includeCodeLocation
  THEN << LocatorCall(input.locator,
                      CodeLocatorInput(input.userQuery, Absent, Absent,
                                       Present("general"))) >>
  ELSE <<>>

\* if (input.includeCodeLocation)
\*   await codeLocator.execute({ userQuery: input.userQuery })
LocatorCallsOf(input) ==
  IF input.includeCodeLocation
  THEN << LocatorCall(input.locator,
                      CodeLocatorInput(input.userQuery, Absent, Absent,
                                       Absent)) >>
  ELSE <<>>

\* criticalRisks.slice(0, 3)
riskSlice(risks) == slice(risks, RiskLimit)

\* Next steps that are the whole plan.
nextStepsWholePlan(unifiedPlan) == unifiedPlan

\* unifiedPlan.slice(0, 5)
nextStepsOf(unifiedPlan) == slice(unifiedPlan, NextStepsLimit)

\* The object the try block returns.
NormalResponse(input, experts, unifiedPlan) ==
  [overallPriority |-> overallPriorityOf(experts),
   conflictResolution |-> resolveConflicts(input.copy, experts),
   unifiedPlan |-> unifiedPlan,
   criticalRisks |->
     riskSlice(prioritizeRisks(flatMapField(experts, "risks", Len(experts)))),
   nextSteps |-> nextStepsOf(unifiedPlan),
   successCriteria |->
     generateSuccessCriteria(input.copy, toLowerCase(input.userQuery)),
   codeLocations |->
     LET calls == LocatorCallsOf(input)
     IN IF Len(calls) > 0 THEN Present(calls[1].result.locations) ELSE Absent]

SynthesizeTry(input, experts) ==
  NormalResponse(input, experts,
    createUnifiedPlan(input.copy,
      flatMapField(experts, "immediateActions", Len(experts))))

\* An execute without the catch block: the error reaches the caller.
SynthesizeNoCatch(thrown, otherwise) ==
  IF IsPresent(thrown) THEN [raised |-> ValueOf(thrown)] ELSE otherwise

SynthesizeCatch(thrown, otherwise) ==
  IF IsPresent(thrown) THEN FallbackResponse(ValueOf(thrown)) ELSE otherwise

SynthesizeExecute(input) ==
  SynthesizeCatch(thrownInTry(input),
                  SynthesizeTry(input, expertsOf(input.expertResponses)))

\* The locator calls made by the time execute returns: the call is the last
\* step of the try block that can be skipped by an earlier throw.
SynthesizeLocatorCalls(input) ==
  IF IsPresent(thrownInTry(input)) THEN <<>> ELSE LocatorCallsOf(input)

(***************************************************************************)
(* Inputs of the synthesizer.                                              *)
(***************************************************************************)
AddValidation == "Add input validation"
\* what the executive copy makes of AddValidation: a plan entry fed back
AddValidationExecutive ==
  "WHAT: Add input validation. HOW: Trust LLM to implement effectively."

ExpertPool ==
  { Expert(Present("HIGH"),
           Present(<<"Fix the login bug", AddValidation,
                     "Implement secure session cookies">>),
           Present(<<"security breach risk", "Session hijacking">>)),
    Expert(Present("MEDIUM"),
           Present(<<"Optimize database queries", "Create risk register",
                     AddValidationExecutive>>),
           Present(<<"Slow page loads", "Compliance issues",
                     "Data loss during migration">>)),
    Expert(Present("LOW"),
           Present(<<"Set up monitoring", "Write unit tests", AddValidation>>),
           Present(<<"Poor user experience", "security breach risk">>)),
    Expert(Absent, Absent, Absent),
    NullElement }

RECURSIVE ExpertLists(_)
ExpertLists(n) ==
  IF n = 0 THEN {<<>>}
  ELSE LET shorter == ExpertLists(n - 1)
       IN shorter \cup {Append(l, e) : l \in shorter, e \in ExpertPool}

\* The keys of an object given by its values alone: distinct names.
KeyLetters == "abcdefgh"
RECURSIVE keysFor(_)
keysFor(n) ==
  IF n = 0 THEN <<>>
  ELSE Append(keysFor(n - 1), "expert_" \o SubSeq(KeyLetters, n, n))

Document(kind, text, items) ==
  [kind |-> kind, text |-> text, items |-> items,
   keys |-> IF kind = "object" THEN keysFor(Len(items)) ELSE <<>>]

KeyedDocument(keys, items) ==
  [kind |-> "object", text |-> "", items |-> items, keys |-> keys]

MalformedTexts == {"", "not json", "{priority: HIGH}"}

Documents ==
  {Document("malformed", t, <<>>) : t \in MalformedTexts}
    \cup {Document("null", "", <<>>), Document("number", "", <<>>)}
    \cup {Document(k, "", l) : k \in {"array", "object"}, l \in ExpertLists(MaxExperts)}

\* The query plays no part in how the expert responses are merged; it decides
\* the success criteria and, through the code locator, the code locations.
SynthQueries == {"Fix the login sort order bug"}

SynthesizeInputs ==
  [copy : Copies, expertResponses : Documents, userQuery : SynthQueries,
   includeCodeLocation : BOOLEAN, locator : {"CodeLocatorExpertTool.ts"}]

(***************************************************************************)
(* Specification of the synthesizer.                                       *)
(***************************************************************************)
Synthesize(input) ==
  /\ op = "none"
  /\ op' = "synthesize_experts"
  /\ arg' = input
  /\ ret' = SynthesizeExecute(input)
  /\ path' = IF IsPresent(thrownInTry(input)) THEN "caught" ELSE "returned"
  /\ locatorCalls' = SynthesizeLocatorCalls(input)
  /\ UNCHANGED fedBack

\* The caller sends the plan it received back as the actions of one expert.
Resynthesize ==
  /\ op = "synthesize_experts"
  /\ path = "returned"
  /\ fedBack = Absent
  /\ LET input ==
           [arg EXCEPT !.expertResponses =
              Document("array", "",
                       <<Expert(Absent, Present(ret.unifiedPlan), Absent)>>)]
     IN /\ arg' = input
        /\ ret' = SynthesizeExecute(input)
        /\ locatorCalls' = SynthesizeLocatorCalls(input)
  /\ fedBack' = Present(ret.unifiedPlan)
  /\ UNCHANGED <<op, path>>

NextSynth ==
  \/ \E input \in SynthesizeInputs : Synthesize(input)
  \/ Resynthesize
  \/ Respond

SpecSynth == Init /\ [][NextSynth]_vars

(***************************************************************************)
(* Loosely typed inputs of the synthesizer: expertResponses is any JSON    *)
(* text, so an element need not be an object and a list need not hold      *)
(* strings; the query decides the code locations, in either locator copy.  *)
(***************************************************************************)
MaxLooseExperts == 2

LoosePool ==
  { NullElement,
    ScalarElement,
    Expert(Present("HIGH"), Present(<<"#5">>), Absent),
    Expert(Present("MEDIUM"), Present(<<"Fix the login bug">>),
           Present(<<"#5">>)),
    Expert(Present("LOW"), Present(<<"Write unit tests", "#7">>),
           Present(<<"Data loss during migration">>)),
    Expert(Present("LOW"), Present(<<"Set up monitoring">>),
           Present(<<"Slow page loads", "security breach risk">>)) }

RECURSIVE LooseLists(_)
LooseLists(n) ==
  IF n = 0 THEN {<<>>}
  ELSE LET shorter == LooseLists(n - 1)
       IN shorter \cup {Append(l, e) : l \in shorter, e \in LoosePool}

LooseDocuments ==
  {Document("malformed", t, <<>>) : t \in MalformedTexts}
    \cup {Document("null", "", <<>>), Document("number", "", <<>>),
          Document("string", "ab", <<>>)}
    \cup {Document(k, "", l) :
            k \in {"array", "object"}, l \in LooseLists(MaxLooseExperts)}

LooseQueries ==
  {"Fix the login sort order bug", "Remove the duplicate import",
   "Speed up the API endpoint"}

LooseInputs ==
  [copy : Copies, expertResponses : LooseDocuments, userQuery : LooseQueries,
   includeCodeLocation : BOOLEAN, locator : Locators]

NextSynthLoose ==
  \/ \E input \in LooseInputs : Synthesize(input)
  \/ Respond

SpecSynthLoose == Init /\ [][NextSynthLoose]_vars

(***************************************************************************)
(* Keyed inputs of the synthesizer: expertResponses is a JSON object whose *)
(* keys are integers or names, in any order, a key possibly written twice. *)
(***************************************************************************)
MaxMembers == 3

KeyPool == {"b", "a", "10", "2"}

KeyedPool ==
  { Expert(Present("HIGH"),
           Present(<<"Fix the login bug", AddValidation>>),
           Present(<<"security breach risk">>)),
    Expert(Present("LOW"),
           Present(<<"Patch the session store", "Set up monitoring">>),
           Present(<<"Session hijacking attack", "Slow page loads">>)) }

RECURSIVE KeyedDocuments(_)
KeyedDocuments(n) ==
  IF n = 0 THEN {KeyedDocument(<<>>, <<>>)}
  ELSE LET shorter == KeyedDocuments(n - 1)
       IN shorter \cup
            {KeyedDocument(Append(d.keys, k), Append(d.items, e)) :
               d \in shorter, k \in KeyPool, e \in KeyedPool}

KeyedInputs ==
  [copy : Copies, expertResponses : KeyedDocuments(MaxMembers),
   userQuery : SynthQueries, includeCodeLocation : {FALSE},
   locator : {"CodeLocatorExpertTool.ts"}]

NextSynthKeyed ==
  \/ \E input \in KeyedInputs : Synthesize(input)
  \/ Respond

SpecSynthKeyed == Init /\ [][NextSynthKeyed]_vars

(***************************************************************************)
(* Worded inputs of the synthesizer: queries that name any of the keyword  *)
(* groups of the success criteria, and risks that name any of the rules of *)
(* the risk table, alone or two in one risk.                               *)
(***************************************************************************)
MaxCriteriaWords == 4
MaxRiskWords == 2

CriteriaVocabulary == {"Slow", "login", "user", "bug", "please"}

RiskVocabulary ==
  {"Security", "crash", "downtime", "legal", "slow", "user", "other"}

WordedExpert(risks) ==
  Expert(Present("MEDIUM"), Present(<<"Write unit tests">>), Present(risks))

QueryInputs ==
  [copy : Copies,
   expertResponses :
     {Document("array", "", <<WordedExpert(<<"Slow page loads">>)>>)},
   userQuery : PhrasesOf(CriteriaVocabulary, MaxCriteriaWords),
   includeCodeLocation : {FALSE}, locator : {"CodeLocatorExpertTool.ts"}]

RiskInputs ==
  [copy : Copies,
   expertResponses :
     {Document("array", "", <<WordedExpert(<<first, second>>)>>) :
        first \in RiskVocabulary,
        second \in PhrasesOf(RiskVocabulary, MaxRiskWords) \ {""}},
   userQuery : SynthQueries,
   includeCodeLocation : {FALSE}, locator : {"CodeLocatorExpertTool.ts"}]

NextSynthWorded ==
  \/ \E input \in QueryInputs \cup RiskInputs : Synthesize(input)
  \/ Respond

SpecSynthWorded == Init /\ [][NextSynthWorded]_vars

(***************************************************************************)
(* Expert tools.  Each lower-cases the query, classifies it by the first   *)
(* regex of a fixed chain that matches, looks the category up in a table   *)
(* of canned responses and adds a list of questions.  A regex of the       *)
(* chains is an alternation of literals, one of them with a `.*` between   *)
(* two literals (`.` matches any character but a line terminator; the      *)
(* queries of the model are single lines).                                 *)
(***************************************************************************)
\* /a.*b/: a occurs, and b occurs after it
matchInOrder(s, pieces) ==
  \E i \in 1..(Len(s) - Len(pieces[1]) + 1) :
    /\ SubSeq(s, i, i + Len(pieces[1]) - 1) = pieces[1]
    /\ includes(SubSeq(s, i + Len(pieces[1]), Len(s)), pieces[2])

Category(name, literals, wildcards) ==
  [name |-> name, literals |-> literals, wildcards |-> wildcards]

Literals(name, literals) == Category(name, literals, {})

\* query.match(regex) of a category, for its truthiness
matchCategory(query, category) ==
  \/ match(query, category.literals)
  \/ \E pieces \in category.wildcards : matchInOrder(query, pieces)

\* A chain that lets a later regex override an earlier one.
RECURSIVE classifyLastMatchFrom(_, _, _)
classifyLastMatchFrom(categories, query, i) ==
  IF i = 0 THEN "general"
  ELSE IF matchCategory(query, categories[i]) THEN categories[i].name
  ELSE classifyLastMatchFrom(categories, query, i - 1)

\* query.match(r1) ? 'c1' : query.match(r2) ? 'c2' : ... : 'general'
RECURSIVE classifyFrom(_, _, _)
classifyFrom(categories, query, i) ==
  IF i > Len(categories) THEN "general"
  ELSE IF matchCategory(query, categories[i]) THEN categories[i].name
  ELSE classifyFrom(categories, query, i + 1)

Response(priority, confidence, coreInsight, immediateActions, risks) ==
  [priority |-> priority, confidence |-> confidence,
   coreInsight |-> coreInsight, immediateActions |-> immediateActions,
   risks |-> risks]

\* The object an expert returns: the table entry and the questions.
ExpertResponse(response, questions) ==
  [priority |-> response.priority, confidence |-> response.confidence,
   coreInsight |-> response.coreInsight,
   immediateActions |-> response.immediateActions,
   risks |-> response.risks, questions |-> questions]

\* An optional string taken as a condition: set and not empty.
Truthy(o) == IsPresent(o) /\ ValueOf(o) # ""

classifyLastMatch(categories, query) ==
  classifyLastMatchFrom(categories, query, Len(categories))

classify(categories, query) == classifyFrom(categories, query, 1)

\* ConsultSecurityExpertTool
SecurityCategories ==
  << Literals("auth", {"auth", "login", "password", "token"}),
     Literals("injection", {"sql", "injection", "xss", "csrf"}),
     Literals("data", {"data", "encrypt", "privacy"}),
     Literals("files", {"upload", "file"}) >>

SecurityResponses ==
  [ auth |->
     Response("HIGH", "HIGH",
       "Implement secure session management, strong password hashing, and MFA for sensitive operations",
       <<"Use bcrypt for password hashing",
         "Implement secure session cookies",
         "Add MFA for admin access",
         "Use RBAC for authorization">>,
       <<"Session hijacking",
         "Password brute force attacks",
         "Privilege escalation">>),
    injection |->
     Response("HIGH", "HIGH",
       "Use parameterized queries, input validation, and output encoding to prevent injection attacks",
       <<"Replace string concatenation with parameterized queries",
         "Add input validation",
         "Implement CSP headers",
         "Use DOMPurify for XSS prevention">>,
       <<"Data breach through SQL injection",
         "XSS attacks",
         "CSRF vulnerabilities">>),
    data |->
     Response("HIGH", "HIGH",
       "Encrypt sensitive data at rest and in transit, implement proper access controls",
       <<"Encrypt sensitive database fields",
         "Enforce HTTPS everywhere",
         "Add data masking in logs",
         "Implement access controls">>,
       <<"Data exposure", "Privacy violations", "Compliance issues">>),
    files |->
     Response("MEDIUM", "HIGH",
       "Validate file types, scan for malware, store outside web root with size limits",
       <<"Whitelist allowed file types",
         "Add file size limits",
         "Store uploads outside web root",
         "Implement virus scanning">>,
       <<"Malicious file execution",
         "Path traversal attacks",
         "Server compromise">>),
    general |->
     Response("MEDIUM", "MEDIUM",
       "Add security headers, dependency scanning, and comprehensive logging for security events",
       <<"Add security headers",
         "Scan dependencies for vulnerabilities",
         "Implement security logging",
         "Set up incident response">>,
       <<"Various attack vectors",
         "Outdated dependencies",
         "Poor incident response">>) ]

SecurityQuestions(input) ==
  <<"What sensitive data is being handled?",
    "Are there compliance requirements?">>

ConsultSecurityExecute(input) ==
  LET query == toLowerCase(input.userQuery)
      type == classify(SecurityCategories, query)
  IN ExpertResponse(SecurityResponses[type], SecurityQuestions(input))

\* ConsultPerformanceExpertTool
PerformanceCategories ==
  << Literals("speed", {"slow", "lag", "speed", "fast"}),
     Literals("resources", {"memory", "cpu", "resource"}),
     Literals("database", {"database", "query", "db"}),
     Literals("caching", {"cache", "caching"}) >>

PerformanceResponses ==
  [ speed |->
     Response("HIGH", "HIGH",
       "Profile bottlenecks first, then optimize critical path with lazy loading and caching",
       <<"Profile performance with dev tools",
         "Implement code splitting",
         "Add lazy loading",
         "Optimize bundle size">>,
       <<"Premature optimization",
         "Breaking existing functionality",
         "Complexity increase">>),
    resources |->
     Response("HIGH", "MEDIUM",
       "Monitor memory/CPU usage patterns, fix leaks, optimize resource allocation",
       <<"Add memory monitoring",
         "Profile CPU usage",
         "Fix memory leaks",
         "Optimize algorithms">>,
       <<"System instability during optimization",
         "Monitoring overhead",
         "Resource constraints">>),
    database |->
     Response("HIGH", "HIGH",
       "Add indexes for frequent queries, use connection pooling, implement caching",
       <<"Analyze slow queries",
         "Add missing indexes",
         "Implement connection pooling",
         "Add query caching">>,
       <<"Index overhead on writes",
         "Cache invalidation complexity",
         "Connection pool exhaustion">>),
    caching |->
     Response("MEDIUM", "HIGH",
       "Cache expensive operations, use appropriate TTL, implement cache invalidation strategy",
       <<"Identify cacheable operations",
         "Implement Redis caching",
         "Set appropriate TTL",
         "Add cache monitoring">>,
       <<"Cache invalidation bugs",
         "Memory usage increase",
         "Stale data issues">>),
    general |->
     Response("MEDIUM", "MEDIUM",
       "Establish performance baselines, implement monitoring, create performance budgets",
       <<"Set up performance monitoring",
         "Create performance baselines",
         "Implement load testing",
         "Define SLA targets">>,
       <<"Monitoring overhead",
         "Performance budget constraints",
         "Tool complexity">>) ]

PerformanceQuestions(input) ==
  IF Truthy(input.currentMetrics)
  THEN <<"What are acceptable performance targets?">>
  ELSE <<"Do you have current performance metrics?",
         "What's the performance goal?">>

ConsultPerformanceExecute(input) ==
  LET query == toLowerCase(input.userQuery)
      type == classify(PerformanceCategories, query)
  IN ExpertResponse(PerformanceResponses[type], PerformanceQuestions(input))

\* ConsultDesignerTool
DesignerCategories ==
  << Literals("visual", {"ugly", "looks", "visual", "design"}),
     Category("usability", {"confusing", "hard to use"},
              {<<"user", "complain">>}),
     Literals("responsive", {"mobile", "responsive", "device"}),
     Literals("accessibility", {"access", "disability", "screen reader"}) >>

DesignerResponses ==
  [ visual |->
     Response("MEDIUM", "HIGH",
       "Improve visual hierarchy, contrast, and spacing for better user comprehension",
       <<"Audit color contrast ratios",
         "Establish consistent spacing scale",
         "Create clear visual hierarchy",
         "Simplify UI elements">>,
       <<"Visual changes confuse existing users",
         "Brand inconsistency",
         "Development complexity">>),
    usability |->
     Response("HIGH", "HIGH",
       "Simplify user flows and reduce cognitive load for task completion",
       <<"Map current user journey",
         "Identify friction points",
         "Simplify navigation",
         "Add clear progress indicators">>,
       <<"User behavior change resistance",
         "Feature discoverability issues",
         "Learning curve for new design">>),
    responsive |->
     Response("HIGH", "MEDIUM",
       "Design mobile-first with touch-friendly interactions and flexible layouts",
       <<"Audit mobile experience",
         "Increase touch target sizes",
         "Optimize for thumb navigation",
         "Test on real devices">>,
       <<"Performance impact on mobile",
         "Feature parity across devices",
         "Testing complexity">>),
    accessibility |->
     Response("HIGH", "HIGH",
       "Ensure WCAG compliance with proper semantic markup and keyboard navigation",
       <<"Add alt text to images",
         "Implement keyboard navigation",
         "Test with screen readers",
         "Check color contrast">>,
       <<"Development time increase",
         "Complex interaction patterns",
         "Legal compliance requirements">>),
    general |->
     Response("MEDIUM", "MEDIUM",
       "Conduct user research to validate design decisions and improve experience",
       <<"Define user personas",
         "Create user journey maps",
         "Design system audit",
         "Usability testing plan">>,
       <<"Resource allocation for research",
         "Timeline impact",
         "Stakeholder buy-in needed">>) ]

DesignerQuestions(input) ==
  <<"Who is the target user?", "What's the primary user goal?">>

ConsultDesignerExecute(input) ==
  LET query == toLowerCase(input.userQuery)
      type == classify(DesignerCategories, query)
  IN ExpertResponse(DesignerResponses[type], DesignerQuestions(input))

\* ConsultDevOpsExpertTool
DevOpsCategories ==
  << Literals("deployment", {"deploy", "deployment", "release", "rollback"}),
     Literals("monitoring", {"monitor", "logging", "observability", "metrics"}),
     Literals("scaling", {"scale", "scaling", "load", "capacity"}),
     Literals("automation", {"ci/cd", "pipeline", "automation", "build"}) >>

DevOpsResponses ==
  [ deployment |->
     Response("HIGH", "HIGH",
       "Implement blue-green deployment with automated rollback and health checks",
       <<"Set up blue-green deployment",
         "Add automated health checks",
         "Configure rollback triggers",
         "Implement canary releases">>,
       <<"Deployment failures during peak traffic",
         "Database migration issues",
         "Service downtime">>),
    monitoring |->
     Response("MEDIUM", "HIGH",
       "Monitor golden signals (latency, traffic, errors, saturation) with proper alerting",
       <<"Set up centralized logging",
         "Implement metrics collection",
         "Configure alerting rules",
         "Create operational dashboards">>,
       <<"Alert fatigue", "Monitoring overhead", "Missing critical issues">>),
    scaling |->
     Response("HIGH", "MEDIUM",
       "Implement auto-scaling with load balancing and database read replicas",
       <<"Configure auto-scaling groups",
         "Set up load balancers",
         "Add database read replicas",
         "Implement CDN">>,
       <<"Scaling costs", "Database bottlenecks", "Network latency">>),
    automation |->
     Response("MEDIUM", "HIGH",
       "Automate CI/CD pipeline with testing, security scanning, and infrastructure as code",
       <<"Set up GitOps workflow",
         "Automate testing pipeline",
         "Add security scanning",
         "Implement infrastructure as code">>,
       <<"Pipeline complexity",
         "Build failures",
         "Security vulnerabilities in automation">>),
    general |->
     Response("MEDIUM", "MEDIUM",
       "Establish operational excellence with documentation, disaster recovery, and cost optimization",
       <<"Create operational runbooks",
         "Set up disaster recovery",
         "Implement cost monitoring",
         "Document procedures">>,
       <<"Operational complexity",
         "Cost overruns",
         "Poor disaster recovery">>) ]

DevOpsQuestions(input) ==
  IF Truthy(input.infrastructure)
  THEN <<"What's the current infrastructure setup?">>
  ELSE <<"What infrastructure are you using?",
         "What are the scaling requirements?">>

ConsultDevOpsExecute(input) ==
  LET query == toLowerCase(input.userQuery)
      type == classify(DevOpsCategories, query)
  IN ExpertResponse(DevOpsResponses[type], DevOpsQuestions(input))

\* ConsultManagerTool
ManagerCategories ==
  << Literals("urgent", {"urgent", "deadline", "asap", "rush"}),
     Literals("planning", {"plan", "roadmap", "strategy", "timeline"}),
     Literals("resources", {"team", "resource", "people", "capacity"}),
     Literals("prioritization", {"priority", "important", "first", "order"}) >>

ManagerResponses ==
  [ urgent |->
     Response("HIGH", "HIGH",
       "Deliver MVP first, defer non-critical features, manage stakeholder expectations",
       <<"Define MVP scope",
         "Set up daily standups",
         "Identify blockers",
         "Communicate timeline risks">>,
       <<"Quality compromised under pressure",
         "Team burnout",
         "Technical debt accumulation">>),
    planning |->
     Response("MEDIUM", "HIGH",
       "Break work into phases, map dependencies, build in buffer time",
       <<"Create project roadmap",
         "Define milestones",
         "Map dependencies",
         "Estimate effort">>,
       <<"Scope creep", "Unrealistic timelines", "Resource availability">>),
    resources |->
     Response("HIGH", "MEDIUM",
       "Assess team capacity, identify skill gaps, plan knowledge transfer",
       <<"Audit team skills",
         "Balance workload",
         "Plan knowledge sharing",
         "Identify training needs">>,
       <<"Key person dependencies",
         "Skill bottlenecks",
         "Team capacity limits">>),
    prioritization |->
     Response("MEDIUM", "HIGH",
       "Prioritize by business value, user impact, and technical dependencies",
       <<"Score features by value",
         "Map technical dependencies",
         "Estimate effort",
         "Create priority matrix">>,
       <<"Stakeholder disagreement",
         "Priority conflicts",
         "Changing requirements">>),
    general |->
     Response("MEDIUM", "MEDIUM",
       "Establish clear communication, regular checkpoints, and risk monitoring",
       <<"Set up regular meetings",
         "Define success criteria",
         "Create risk register",
         "Plan communication">>,
       <<"Poor communication",
         "Unclear expectations",
         "Missed dependencies">>) ]

ManagerQuestions(input) ==
  IF Truthy(input.timeline)
  THEN <<"Is this timeline realistic?">>
  ELSE <<"What's the deadline?", "Who are the key stakeholders?">>

ConsultManagerExecute(input) ==
  LET query == toLowerCase(input.userQuery)
      type == classify(ManagerCategories, query)
  IN ExpertResponse(ManagerResponses[type], ManagerQuestions(input))

\* ConsultEdgeCasesExpertTool
EdgeCasesCategories ==
  << Literals("performance", {"performance", "slow"}),
     Literals("user_interface", {"user", "interface", "ui"}),
     Literals("data", {"data", "database"}),
     Literals("security", {"security", "auth"}),
     Literals("api", {"api", "integration"}) >>

EdgeCasesResponses ==
  [ performance |->
     Response("HIGH", "MEDIUM",
       "Test under realistic load conditions, monitor for memory leaks and cascade failures",
       <<"Load test with realistic data",
         "Monitor memory usage over time",
         "Add circuit breakers",
         "Test mobile performance">>,
       <<"System crashes under peak load",
         "Memory exhaustion",
         "Cascade failures from timeouts">>),
    user_interface |->
     Response("MEDIUM", "HIGH",
       "Test with assistive technologies, extremely long content, and degraded network conditions",
       <<"Test with screen readers",
         "Handle long content gracefully",
         "Test keyboard navigation",
         "Add progressive enhancement">>,
       <<"Legal compliance issues",
         "Layout breaks",
         "Inaccessible to disabled users">>),
    data |->
     Response("HIGH", "HIGH",
       "Test concurrent operations, timezone edge cases, and special character handling",
       <<"Test concurrent database writes",
         "Handle timezone conversions properly",
         "Test with Unicode characters",
         "Monitor connection pools">>,
       <<"Data corruption",
         "Application crashes",
         "Character encoding issues">>),
    security |->
     Response("HIGH", "MEDIUM",
       "Test race conditions, error handling paths, and timing attack vectors",
       <<"Test concurrent authentication",
         "Sanitize error messages",
         "Use constant-time operations",
         "Add rate limiting">>,
       <<"Privilege escalation",
         "Information disclosure",
         "Session hijacking">>),
    api |->
     Response("MEDIUM", "MEDIUM",
       "Handle API failures gracefully with proper retry logic and fallback mechanisms",
       <<"Implement exponential backoff",
         "Validate API responses",
         "Design idempotent operations",
         "Plan for API versioning">>,
       <<"Service degradation", "Data inconsistency", "Lost events">>),
    general |->
     Response("MEDIUM", "MEDIUM",
       "Plan for deployment failures, configuration drift, and third-party dependencies",
       <<"Implement safe deployment strategy",
         "Use infrastructure as code",
         "Monitor disk usage",
         "Add dependency circuit breakers">>,
       <<"Deployment failures",
         "Environment inconsistencies",
         "System resource exhaustion">>) ]

EdgeCasesQuestions(input) ==
  <<"What happens when this fails at 3 AM?",
    "How does this behave with 10x expected load?",
    "What failure modes are we missing?">>

ConsultEdgeCasesExecute(input) ==
  LET query == toLowerCase(input.userQuery)
      type == classify(EdgeCasesCategories, query)
  IN ExpertResponse(EdgeCasesResponses[type], EdgeCasesQuestions(input))

\* ConsultSoftwareEngineerTool: the chain is preceded by a test for a
\* module boundary problem, and the table entry is replaced by a fixed
\* answer when the query speaks of imports, scheduling and the assistant.
hasImportIssue(query) == includes(query, "import") \/ includes(query, "from")
hasSchedulingConcern(query) ==
  includes(query, "scheduling") \/ includes(query, "calendar")
hasAssistantLogic(query) ==
  includes(query, "assistant") \/ includes(query, "operation")
hasDuplicateIssue(query) ==
  includes(query, "duplicate") \/ includes(query, "same")

EngineeringCategories ==
  << Literals("bug", {"bug", "error", "broken", "fix", "debug"}),
     Literals("refactor", {"refactor", "clean", "messy", "improve"}),
     Literals("implement", {"implement", "build", "create", "add"}) >>

\* A chain that tests the refactor regex before the bug regex.
EngineeringTypeRefactorFirst(query) ==
  IF hasImportIssue(query) /\ hasDuplicateIssue(query) THEN "architecture"
  ELSE classify(<< EngineeringCategories[2], EngineeringCategories[1],
                   EngineeringCategories[3] >>, query)

EngineeringType(query) ==
  IF hasImportIssue(query) /\ hasDuplicateIssue(query) THEN "architecture"
  ELSE classify(EngineeringCategories, query)

EngineeringResponses ==
  [ bug |->
     Response("HIGH", "HIGH",
       "WHAT: Bug blocking functionality. WHY: Impacts users. APPROACH: Fix immediately, minimal change.",
       <<"WHAT: Reproduce the issue reliably",
         "WHAT: Identify root cause precisely",
         "WHY: Prevents bandaid fixes that break later",
         "HOW: Let LLM implement minimal, targeted fix">>,
       <<"Fix introduces new bugs",
         "Root cause not addressed",
         "Production deployment risk">>),
    refactor |->
     Response("MEDIUM", "HIGH",
       "WHAT: Code needs cleanup. WHY: Improve maintainability. AVOID: Overengineering.",
       <<"WHAT: Identify code that's hard to understand",
         "WHAT: Extract clear, focused functions",
         "WHY: Make code self-documenting",
         "PRINCIPLE: Simple > Clever, always">>,
       <<"Breaking existing functionality",
         "Time investment vs business value",
         "Incomplete refactoring">>),
    implement |->
     Response("MEDIUM", "MEDIUM",
       "WHAT: New feature required. WHY: Business need. START: Simplest working version.",
       <<"WHAT: Define minimal requirements",
         "WHAT: Build simplest working solution",
         "WHY: Avoid premature optimization",
         "MANTRA: Make it work, then make it better">>,
       <<"Scope creep", "Integration complexity", "Missing edge cases">>),
    architecture |->
     Response("HIGH", "MEDIUM",
       "WHAT: Structure needs fixing. WHY: Current design blocks progress. FIX: Clear boundaries.",
       <<"WHAT: Map current painful points",
         "WHAT: Define simple module boundaries",
         "WHY: Enable independent development",
         "AVOID: Grand rewrites, clever patterns">>,
       <<"Over-engineering",
         "Team learning curve",
         "Future maintainability">>),
    general |->
     Response("MEDIUM", "MEDIUM",
       "WHAT: Task needs attention. WHY: Support development goals. HOW: You decide best approach.",
       <<"WHAT: Understand the real need",
         "WHY: Solutions must solve actual problems",
         "HOW: Trust LLM to choose approach",
         "REMEMBER: You're a collaborator, not a rule engine">>,
       <<"Unclear requirements",
         "Technical debt accumulation",
         "Poor documentation">>) ]

CrossModuleResponse ==
  Response("HIGH", "HIGH",
    "Cross-module imports creating circular dependencies - mealScheduling importing assistant operations",
    <<"Map out current import dependencies between modules",
      "Move assistant-specific operations to assistantOperations module",
      "Remove cross-module imports from mealScheduling",
      "Create proper interfaces between modules",
      "Test each module in isolation">>,
    <<"Breaking existing functionality during refactor",
      "Hidden dependencies not immediately visible",
      "Regression in scheduling or assistant features">>)

\* Questions without the closing else branch.
generateSmartQuestionsNoDefault(input, importIssue, schedulingConcern) ==
  IF importIssue /\ schedulingConcern
  THEN <<"Are there other modules with similar cross-dependencies?",
         "What's the intended relationship between scheduling and assistant modules?">>
  ELSE IF Truthy(input.codeSnippet)
  THEN <<"What's the expected behavior vs actual behavior?">>
  ELSE <<>>

generateSmartQuestions(input, importIssue, schedulingConcern) ==
  IF importIssue /\ schedulingConcern
  THEN <<"Are there other modules with similar cross-dependencies?",
         "What's the intended relationship between scheduling and assistant modules?">>
  ELSE IF Truthy(input.codeSnippet)
  THEN <<"What's the expected behavior vs actual behavior?">>
  ELSE <<"Can you show me the specific code causing issues?">>

\* A customization that does not ask for the assistant term.
generateEngineeringAnalysisWithoutAssistant(input) ==
  LET query == toLowerCase(input.userQuery)
      baseResponse == EngineeringResponses[EngineeringType(query)]
      customizedResponse ==
        IF hasImportIssue(query) /\ hasSchedulingConcern(query)
        THEN CrossModuleResponse
        ELSE baseResponse
  IN ExpertResponse(customizedResponse,
                    generateSmartQuestions(input, hasImportIssue(query),
                                           hasSchedulingConcern(query)))

generateEngineeringAnalysis(input) ==
  LET query == toLowerCase(input.userQuery)
      baseResponse == EngineeringResponses[EngineeringType(query)]
      customizedResponse ==
        IF hasImportIssue(query) /\ hasSchedulingConcern(query)
           /\ hasAssistantLogic(query)
        THEN CrossModuleResponse
        ELSE baseResponse
  IN ExpertResponse(customizedResponse,
                    generateSmartQuestions(input, hasImportIssue(query),
                                           hasSchedulingConcern(query)))

ConsultSoftwareEngineerExecute(input) == generateEngineeringAnalysis(input)

(***************************************************************************)
(* Inputs of the expert tools: a query of at most MaxExpertWords entries   *)
(* of the tool's vocabulary, which has a word for each regex of its chain, *)
(* and the optional fields of its input object.  An optional string the    *)
(* tool tests is absent, empty or set; one it only logs is absent or set.  *)
(***************************************************************************)
MaxExpertWords == 3

TestedTexts == {Absent, Present(""), Present("given")}
LoggedTexts == {Absent, Present("given")}

EngineeringVocabulary ==
  {"Fix messy", "Refactor", "import", "duplicate", "calendar operation",
   "add"}
SecurityVocabulary == {"Login", "sql", "data", "upload", "please"}
PerformanceVocabulary == {"Slow", "memory", "query", "cache", "please"}
DesignerVocabulary == {"looks", "User", "complain", "mobile", "access"}
DevOpsVocabulary == {"Deploy", "metrics", "load", "ci/cd", "please"}
ManagerVocabulary == {"Urgent", "plan", "team", "first", "please"}
EdgeCasesVocabulary == {"Slow", "ui", "data", "auth", "api"}

\* Queries with two of the three terms of the cross-module customization.
TwoTermQueries ==
  {"Import from the calendar", "import the assistant",
   "Scheduling of the operation"}

ConsultSoftwareEngineerInputs ==
  [userQuery : PhrasesOf(EngineeringVocabulary, MaxExpertWords)
                 \cup TwoTermQueries,
   context : LoggedTexts, codeSnippet : TestedTexts, techStack : LoggedTexts]
ConsultSecurityInputs ==
  [userQuery : PhrasesOf(SecurityVocabulary, MaxExpertWords),
   context : LoggedTexts, techStack : LoggedTexts]
ConsultPerformanceInputs ==
  [userQuery : PhrasesOf(PerformanceVocabulary, MaxExpertWords),
   context : LoggedTexts, currentMetrics : TestedTexts]
ConsultDesignerInputs ==
  [userQuery : PhrasesOf(DesignerVocabulary, MaxExpertWords),
   context : LoggedTexts]
ConsultDevOpsInputs ==
  [userQuery : PhrasesOf(DevOpsVocabulary, MaxExpertWords),
   context : LoggedTexts, infrastructure : TestedTexts]
ConsultManagerInputs ==
  [userQuery : PhrasesOf(ManagerVocabulary, MaxExpertWords),
   context : LoggedTexts, timeline : TestedTexts]
ConsultEdgeCasesInputs ==
  [userQuery : PhrasesOf(EdgeCasesVocabulary, MaxExpertWords),
   context : LoggedTexts]

(***************************************************************************)
(* Specification of the expert tools.                                      *)
(***************************************************************************)
\* An expert tool is served: it returns its response and keeps nothing.
ConsultSoftwareEngineer(input) ==
  /\ op = "none"
  /\ op' = "consult_software_engineer"
  /\ arg' = input
  /\ ret' = ConsultSoftwareEngineerExecute(input)
  /\ path' = "returned"
  /\ UNCHANGED <<fedBack, locatorCalls>>

ConsultSecurity(input) ==
  /\ op = "none"
  /\ op' = "consult_security_expert"
  /\ arg' = input
  /\ ret' = ConsultSecurityExecute(input)
  /\ path' = "returned"
  /\ UNCHANGED <<fedBack, locatorCalls>>

ConsultPerformance(input) ==
  /\ op = "none"
  /\ op' = "consult_performance_expert"
  /\ arg' = input
  /\ ret' = ConsultPerformanceExecute(input)
  /\ path' = "returned"
  /\ UNCHANGED <<fedBack, locatorCalls>>

ConsultDesigner(input) ==
  /\ op = "none"
  /\ op' = "consult_designer"
  /\ arg' = input
  /\ ret' = ConsultDesignerExecute(input)
  /\ path' = "returned"
  /\ UNCHANGED <<fedBack, locatorCalls>>

ConsultDevOps(input) ==
  /\ op = "none"
  /\ op' = "consult_devops_expert"
  /\ arg' = input
  /\ ret' = ConsultDevOpsExecute(input)
  /\ path' = "returned"
  /\ UNCHANGED <<fedBack, locatorCalls>>

ConsultManager(input) ==
  /\ op = "none"
  /\ op' = "consult_manager"
  /\ arg' = input
  /\ ret' = ConsultManagerExecute(input)
  /\ path' = "returned"
  /\ UNCHANGED <<fedBack, locatorCalls>>

ConsultEdgeCases(input) ==
  /\ op = "none"
  /\ op' = "consult_edge_cases_expert"
  /\ arg' = input
  /\ ret' = ConsultEdgeCasesExecute(input)
  /\ path' = "returned"
  /\ UNCHANGED <<fedBack, locatorCalls>>

NextExpert ==
  \/ \E input \in ConsultSoftwareEngineerInputs : ConsultSoftwareEngineer(input)
  \/ \E input \in ConsultSecurityInputs : ConsultSecurity(input)
  \/ \E input \in ConsultPerformanceInputs : ConsultPerformance(input)
  \/ \E input \in ConsultDesignerInputs : ConsultDesigner(input)
  \/ \E input \in ConsultDevOpsInputs : ConsultDevOps(input)
  \/ \E input \in ConsultManagerInputs : ConsultManager(input)
  \/ \E input \in ConsultEdgeCasesInputs : ConsultEdgeCases(input)
  \/ Respond

SpecExpert == Init /\ [][NextExpert]_vars

(***************************************************************************)
(* Properties of the selector.                                             *)
(***************************************************************************)
\* Helpers of the properties: no two entries of a list are equal; a string
\* begins with a prefix.
NoDuplicates(a) == \A i, j \in 1..Len(a) : a[i] = a[j] => i = j

StartsWith(s, p) == Len(s) >= Len(p) /\ SubSeq(s, 1, Len(p)) = p

AllPatterns ==
  {SoftwareEngineerPattern, PerformancePattern, SecurityPattern,
   DesignerPattern, DevOpsPattern, EdgeCasesPattern}

MatchesNoPattern(query) == \A pat \in AllPatterns : ~match(query, pat)

\* C1: analyze_task returns between 1 and 3 expert identifiers, none
\* repeated; a query matching none of the domain patterns gets exactly
\* the software engineer, with complexity LOW.
C1_OneToThreeExperts ==
  op = "analyze_task" =>
    /\ Len(ret.selectedExperts) \in 1..3
    /\ NoDuplicates(ret.selectedExperts)
    /\ MatchesNoPattern(toLowerCase(arg.userQuery)) =>
         /\ ret.selectedExperts = <<"consult_software_engineer">>
         /\ ret.complexity = "LOW"

C1_Witness ==
  /\ op = "analyze_task"
  /\ arg.userQuery = "please Security"
  /\ MatchesNoPattern(toLowerCase(arg.userQuery))
  /\ ret.selectedExperts = <<"consult_software_engineer">>

\* The experts in the fixed evaluation order.
EvaluationOrder ==
  <<"consult_software_engineer", "consult_performance_expert",
    "consult_security_expert", "consult_designer", "consult_devops_expert",
    "consult_edge_cases_expert">>

PatternOf(id) ==
  CASE id = "consult_software_engineer" -> SoftwareEngineerPattern
    [] id = "consult_performance_expert" -> PerformancePattern
    [] id = "consult_security_expert" -> SecurityPattern
    [] id = "consult_designer" -> DesignerPattern
    [] id = "consult_devops_expert" -> DevOpsPattern
    [] id = "consult_edge_cases_expert" -> EdgeCasesPattern

PrimaryMatchCount(query) ==
  Cardinality({i \in 1..5 : match(query, PatternOf(EvaluationOrder[i]))})

\* An expert is matched when its own pattern matches, the edge-cases expert
\* also when two primary experts matched.
IsMatched(id, query) ==
  \/ match(query, PatternOf(id))
  \/ id = "consult_edge_cases_expert" /\ PrimaryMatchCount(query) >= 2

MatchList(query) ==
  SelectSeq(EvaluationOrder, LAMBDA id : IsMatched(id, query))

\* C2: when four or more experts are matched, the result is exactly the
\* first three of the match list taken in evaluation order.
C2_FirstThreeKept ==
  op = "analyze_task" =>
    LET matched == MatchList(toLowerCase(arg.userQuery))
    IN Len(matched) >= 4 => ret.selectedExperts = SubSeq(matched, 1, 3)

\* Five experts matched, so that a primary expert is dropped too.
C2_Witness ==
  /\ op = "analyze_task"
  /\ Len(MatchList(toLowerCase(arg.userQuery))) >= 5
  /\ Len(ret.selectedExperts) = 3

\* C3: the README's complex query is answered with the software engineer,
\* the performance expert and the security expert, complexity HIGH.
C3_ComplexQueryScenario ==
  (op = "analyze_task" /\ arg.userQuery = ComplexQuery) =>
    /\ ret.selectedExperts =
         <<"consult_software_engineer", "consult_performance_expert",
           "consult_security_expert">>
    /\ ret.complexity = "HIGH"

\* C4: the README examples: the complex query selects five experts, the
\* simple query the software engineer only.
C4_ReadmeExamples ==
  op = "analyze_task" =>
    /\ arg.userQuery = ComplexQuery =>
         ret.selectedExperts =
           <<"consult_software_engineer", "consult_performance_expert",
             "consult_security_expert", "consult_designer",
             "consult_edge_cases_expert">>
    /\ arg.userQuery = SimpleQuery =>
         ret.selectedExperts = <<"consult_software_engineer">>

EdgeCases == "consult_edge_cases_expert"

\* C18: the edge-cases expert joins the candidate set exactly when two or
\* more primary experts matched or the query has an edge-case trigger word;
\* it is returned exactly when it joined and at most two primary experts
\* matched, and never with three or more primary matches.
C18_EdgeCasesAddedAndKept ==
  op = "analyze_task" =>
    LET query == toLowerCase(arg.userQuery)
        primaries == PrimaryMatchCount(query)
        added == primaries >= 2 \/ match(query, EdgeCasesPattern)
    IN /\ arrayIncludes(CandidateExperts(query), EdgeCases) <=> added
       /\ arrayIncludes(ret.selectedExperts, EdgeCases)
            <=> (added /\ primaries <= 2)
       /\ primaries >= 3 => ~arrayIncludes(ret.selectedExperts, EdgeCases)

\* A trigger word alone brings the edge-cases expert in, behind one primary.
C18_Witness ==
  /\ op = "analyze_task"
  /\ PrimaryMatchCount(toLowerCase(arg.userQuery)) = 1
  /\ match(toLowerCase(arg.userQuery), EdgeCasesPattern)
  /\ Len(ret.selectedExperts) = 2
  /\ ret.selectedExperts[2] = EdgeCases

\* C19: complexity and contextEfficiency follow from the number of returned
\* experts alone: 1 gives LOW and OPTIMAL, 2 MEDIUM and OPTIMAL, 3 HIGH and
\* MODERATE; HEAVY is never returned.
C19_GradesByExpertCount ==
  op = "analyze_task" =>
    LET n == Len(ret.selectedExperts)
    IN /\ n \in 1..3
       /\ n = 1 => ret.complexity = "LOW" /\ ret.contextEfficiency = "OPTIMAL"
       /\ n = 2 => ret.complexity = "MEDIUM" /\ ret.contextEfficiency = "OPTIMAL"
       /\ n = 3 => ret.complexity = "HIGH" /\ ret.contextEfficiency = "MODERATE"
       /\ ret.contextEfficiency # "HEAVY"

\* Five experts matched and three returned: still MODERATE.
C19_Witness ==
  /\ op = "analyze_task"
  /\ Len(MatchList(toLowerCase(arg.userQuery))) >= 5
  /\ Len(ret.selectedExperts) = 3
  /\ ret.complexity = "HIGH"
  /\ ret.contextEfficiency = "MODERATE"

\* C27: the software-engineer default is used only when nothing at all
\* matched: a query that matches no primary pattern and has an edge-case
\* trigger word gets exactly the edge-cases expert, complexity LOW and
\* contextEfficiency OPTIMAL, without the software engineer.
C27_EdgeCasesAlone ==
  op = "analyze_task" =>
    LET query == toLowerCase(arg.userQuery)
    IN /\ (PrimaryMatchCount(query) = 0 /\ match(query, EdgeCasesPattern)) =>
            /\ ret.selectedExperts = <<EdgeCases>>
            /\ ret.complexity = "LOW"
            /\ ret.contextEfficiency = "OPTIMAL"
       /\ (arrayIncludes(ret.selectedExperts, "consult_software_engineer")
             /\ ~match(query, SoftwareEngineerPattern)) =>
            MatchesNoPattern(query)

C27_Witness ==
  /\ op = "analyze_task"
  /\ arg.userQuery = "please crash"
  /\ PrimaryMatchCount(toLowerCase(arg.userQuery)) = 0
  /\ ret.selectedExperts = <<EdgeCases>>

\* C28: every identifier in selectedExperts is one of the six experts the
\* selector tests for; the manager and the code locator are never
\* selected, whatever the query says.
C28_SelectedFromSix ==
  op = "analyze_task" =>
    /\ \A i \in 1..Len(ret.selectedExperts) :
         ret.selectedExperts[i] \in
           {EvaluationOrder[k] : k \in 1..Len(EvaluationOrder)}
    /\ ~arrayIncludes(ret.selectedExperts, "consult_manager")
    /\ ~arrayIncludes(ret.selectedExperts, "code_locator_expert")

\* The query for the manager gets the default.
C28_Witness ==
  /\ op = "analyze_task"
  /\ arg.userQuery = ManagerQuery
  /\ ret.selectedExperts = <<"consult_software_engineer">>

(***************************************************************************)
(* Properties of the code locator.                                         *)
(***************************************************************************)
Located == op = "code_locator_expert"

SortingStrategy == "Database query analysis - focus on sorting implementation"
ApiStrategy == "API layer analysis - focus on service endpoints"
FrontendStrategy == "Frontend component analysis - focus on UI components"
GenericStrategy == "General codebase analysis - broad search pattern"

\* The strategy the priority list gives a query.
StrategyByQuery(query) ==
  IF match(query, {"sort", "order"}) THEN SortingStrategy
  ELSE IF match(query, {"api", "endpoint"}) THEN ApiStrategy
  ELSE IF match(query, {"component", "ui"}) THEN FrontendStrategy
  ELSE GenericStrategy

\* The file paths of the locations, in order.
PathsOf(locations) == [i \in 1..Len(locations) |-> locations[i].filePath]

SortingPaths == <<"src/backend/services/", "src/backend/types/", "src/components/">>
ApiPaths == <<"src/api/", "src/services/">>
FrontendPaths == <<"src/components/", "src/pages/">>
ImportPaths ==
  <<"src/backend/lib/assistantOperations/",
    "src/backend/lib/assistantOperations/mealSchedulingAssistant.ts",
    "src/backend/services/assistantManagerService.ts">>
HandlerPaths == <<"**/*Handler.ts", "src/backend/">>

\* The locations that go with each strategy of the priority list.
PathsGatedBy(strategy) ==
  IF strategy = SortingStrategy THEN SortingPaths
  ELSE IF strategy = ApiStrategy THEN ApiPaths
  ELSE IF strategy = FrontendStrategy THEN FrontendPaths
  ELSE <<>>

SearchTypeGiven == IsPresent(arg.input.searchType)

OrderByRecommendations ==
  {"Search for 'ORDER BY' in SQL queries and database files",
   "Look for sorting parameters in API endpoints",
   "Check frontend components for sort controls"}

OrderBySteps ==
  {"Examine the exact ORDER BY clause causing issues",
   "Verify field names match database schema",
   "Check for proper SQL escaping and validation"}

ElementsOf(list) == {list[i] : i \in 1..Len(list)}

\* C26 as stated: recommendations and nextSteps begin with their generic
\* entry; the three ORDER BY recommendations and the three ORDER BY next
\* steps are present exactly when the strategy is the sorting one, so the
\* two lists agree on whether the request is a sorting request.
C26_SortingEntriesByStrategy ==
  Located =>
    /\ StartsWith(ret.recommendations[1],
                  "Use grep/ripgrep to search for key terms: ")
    /\ ret.nextSteps[1] = "Execute targeted searches using the recommended terms"
    /\ IF ret.searchStrategy = SortingStrategy
       THEN /\ OrderByRecommendations \subseteq ElementsOf(ret.recommendations)
            /\ OrderBySteps \subseteq ElementsOf(ret.nextSteps)
       ELSE /\ OrderByRecommendations \cap ElementsOf(ret.recommendations) = {}
            /\ OrderBySteps \cap ElementsOf(ret.nextSteps) = {}

(***************************************************************************)
(* Properties of the synthesizer.                                          *)
(***************************************************************************)
Synthesized == op = "synthesize_experts"

\* The experts as supplied.  The objects of SpecSynth and SpecSynthLoose have
\* distinct names for keys, so that their values are listed as written.
SuppliedExperts == arg.expertResponses.items

\* The input decodes to a collection of expert response objects.
ExpertsSupplied ==
  /\ arg.expertResponses.kind \in {"array", "object"}
  /\ \A i \in 1..Len(SuppliedExperts) : ~SuppliedExperts[i].isNull

SomeExpertHigh ==
  \E i \in 1..Len(SuppliedExperts) : SuppliedExperts[i].priority = Present("HIGH")

\* C5: overallPriority is CRITICAL exactly when at least 3 expert responses
\* were supplied and one of them is HIGH, and HIGH exactly when one is HIGH
\* and fewer than 3 were supplied.
C5_CriticalByCount ==
  (Synthesized /\ ExpertsSupplied) =>
    /\ ret.overallPriority = "CRITICAL"
         <=> (Len(SuppliedExperts) >= 3 /\ SomeExpertHigh)
    /\ ret.overallPriority = "HIGH"
         <=> (Len(SuppliedExperts) < 3 /\ SomeExpertHigh)

\* Three experts, all HIGH.
C5_Witness ==
  /\ Synthesized /\ ExpertsSupplied
  /\ Len(SuppliedExperts) = 3
  /\ \A i \in 1..3 : SuppliedExperts[i].priority = Present("HIGH")
  /\ ret.overallPriority = "CRITICAL"

\* C6: expertResponses that is not valid JSON gets the fixed fallback object,
\* whose conflictResolution starts with "Parsing error:" and which carries no
\* codeLocations; the error is caught, not passed on.
C6_MalformedGetsFallback ==
  (Synthesized /\ arg.expertResponses.kind = "malformed") =>
    /\ path = "caught"
    /\ ret.overallPriority = "MEDIUM"
    /\ ret.unifiedPlan =
         <<"Clarify requirements", "Implement step by step", "Test thoroughly">>
    /\ ret.criticalRisks = <<"Unclear requirements", "Implementation complexity">>
    /\ ret.nextSteps = <<"Review expert feedback", "Create implementation plan">>
    /\ ret.successCriteria =
         <<"Requirements met", "No regressions", "Stakeholder approval">>
    /\ ret.codeLocations = Absent
    /\ StartsWith(ret.conflictResolution, "Parsing error:")

C6_Witness ==
  /\ Synthesized
  /\ arg.expertResponses.kind = "malformed"
  /\ arg.expertResponses.text = "not json"
  /\ arg.includeCodeLocation
  /\ ret.conflictResolution
       = "Parsing error: Unexpected token o in JSON at position 1"

\* C7: unifiedPlan has no two equal entries and at most 6 of them;
\* criticalRisks has no two equal entries and at most 3 of them.
C7_NoDuplicatesWithinLimits ==
  Synthesized =>
    /\ NoDuplicates(ret.unifiedPlan) /\ Len(ret.unifiedPlan) <= 6
    /\ NoDuplicates(ret.criticalRisks) /\ Len(ret.criticalRisks) <= 3

\* The actions and risks of the supplied experts, in the order met.
RECURSIVE SuppliedField(_, _)
SuppliedField(field, n) ==
  IF n = 0 THEN <<>>
  ELSE SuppliedField(field, n - 1)
       \o (IF IsPresent(SuppliedExperts[n][field])
           THEN ValueOf(SuppliedExperts[n][field]) ELSE <<>>)

\* The plan candidates: the distinct supplied actions in order of first
\* occurrence, each as the copy words it.
PlanCandidates ==
  LET actions == newSet(SuppliedField("immediateActions", Len(SuppliedExperts)))
  IN [i \in 1..Len(actions) |->
        IF arg.copy = "part_000" THEN actions[i] ELSE executiveAction(actions[i])]

\* The distinct supplied risks in order of first occurrence.
RiskCandidates == newSet(SuppliedField("risks", Len(SuppliedExperts)))

\* How many of list[1..i] equal list[i].
Occurrence(list, i) == Cardinality({j \in 1..i : list[j] = list[i]})

\* The candidate that kept[i] comes from: the n-th copy of a wording in
\* `kept` comes from the n-th candidate with that wording.
HasSource(kept, candidates, i) ==
  \E c \in 1..Len(candidates) :
    candidates[c] = kept[i] /\ Occurrence(candidates, c) = Occurrence(kept, i)

SourceOf(kept, candidates, i) ==
  CHOOSE c \in 1..Len(candidates) :
    candidates[c] = kept[i] /\ Occurrence(candidates, c) = Occurrence(kept, i)

\* `kept` is a ranking of `candidates` by `scoreOf`: non-increasing scores,
\* nothing kept scores below anything dropped, ties in order of first
\* occurrence.
Ranked(kept, candidates, scoreOf) ==
  /\ \A i \in 1..Len(kept) : HasSource(kept, candidates, i)
  /\ \A i \in 1..(Len(kept) - 1) : scoreOf[kept[i]] >= scoreOf[kept[i + 1]]
  /\ \A c \in 1..Len(candidates) :
       (\A i \in 1..Len(kept) : SourceOf(kept, candidates, i) # c) =>
         \A k \in 1..Len(kept) : scoreOf[kept[k]] >= scoreOf[candidates[c]]
  /\ \A i \in 1..(Len(kept) - 1) :
       scoreOf[kept[i]] = scoreOf[kept[i + 1]] =>
         SourceOf(kept, candidates, i) < SourceOf(kept, candidates, i + 1)

ScoreTable(candidates, copy, risks) ==
  [x \in {candidates[i] : i \in 1..Len(candidates)} |->
     IF risks THEN getRiskScore(x) ELSE getActionPriority(copy, x)]

SecurityBreach == "security breach risk"

\* C8: unifiedPlan and criticalRisks are ranked by score, highest first,
\* truncation drops only the lowest, ties keep their order of first
\* occurrence; "security breach risk" (score 10) comes before every risk
\* that scores lower.
C8_RankedByScore ==
  (Synthesized /\ path = "returned") =>
    LET planScore == ScoreTable(PlanCandidates, arg.copy, FALSE)
        riskScore == ScoreTable(RiskCandidates, arg.copy, TRUE)
    IN /\ Ranked(ret.unifiedPlan, PlanCandidates, planScore)
       /\ Ranked(ret.criticalRisks, RiskCandidates, riskScore)
       /\ Len(ret.unifiedPlan) = (IF Len(PlanCandidates) < 6
                                  THEN Len(PlanCandidates) ELSE 6)
       /\ Len(ret.criticalRisks) = (IF Len(RiskCandidates) < 3
                                    THEN Len(RiskCandidates) ELSE 3)
       /\ arrayIncludes(RiskCandidates, SecurityBreach) =>
            /\ riskScore[SecurityBreach] = 10
            /\ \A i, j \in 1..Len(ret.criticalRisks) :
                 (ret.criticalRisks[i] = SecurityBreach
                    /\ riskScore[ret.criticalRisks[j]] < 10) => i < j

\* Both lists truncated, "security breach risk" met last among the risks
\* and still ranked first.
C8_Witness ==
  /\ Synthesized /\ path = "returned" /\ fedBack = Absent
  /\ Len(PlanCandidates) > 6
  /\ Len(ret.unifiedPlan) = 6
  /\ Len(RiskCandidates) > 3
  /\ RiskCandidates[1] # SecurityBreach
  /\ ret.criticalRisks[1] = SecurityBreach
  /\ getRiskScore(ret.criticalRisks[2]) > getRiskScore(ret.criticalRisks[3])

\* C9: a plan fed back through createUnifiedPlan comes out as it went in.
C9_PlanIdempotent ==
  (Synthesized /\ IsPresent(fedBack)) => ret.unifiedPlan = ValueOf(fedBack)

\* C10 as stated: in every response, the fallback included, nextSteps has
\* at most 5 elements and is a prefix of the same response's unifiedPlan.
C10_NextStepsPrefixAlways ==
  Synthesized =>
    /\ Len(ret.nextSteps) <= 5
    /\ Len(ret.nextSteps) <= Len(ret.unifiedPlan)
    /\ ret.nextSteps = SubSeq(ret.unifiedPlan, 1, Len(ret.nextSteps))

\* C10 amended: in every response of the normal path nextSteps is the first
\* 5 entries of unifiedPlan (all of them when there are fewer); the fallback
\* carries its own fixed two next steps.
C10_NextStepsPrefixUnlessFallback ==
  Synthesized =>
    /\ path = "returned" =>
         /\ Len(ret.nextSteps) <= 5
         /\ Len(ret.nextSteps) = (IF Len(ret.unifiedPlan) < 5
                                  THEN Len(ret.unifiedPlan) ELSE 5)
         /\ ret.nextSteps = SubSeq(ret.unifiedPlan, 1, Len(ret.nextSteps))
    /\ path = "caught" =>
         ret.nextSteps = <<"Review expert feedback", "Create implementation plan">>

C10_Witness ==
  /\ Synthesized /\ path = "returned"
  /\ Len(ret.unifiedPlan) = 6
  /\ Len(ret.nextSteps) = 5

\* C13 as stated: without a HIGH expert the overall priority is MEDIUM, an
\* empty collection and an all-LOW collection included.
C13_MediumWithoutHigh ==
  (Synthesized /\ ExpertsSupplied /\ ~SomeExpertHigh) =>
    ret.overallPriority = "MEDIUM"

\* An expert counts as MEDIUM when it says so or names no priority.
SomeExpertMedium ==
  \E i \in 1..Len(SuppliedExperts) :
    SuppliedExperts[i].priority \in {Present("MEDIUM"), Present(""), Absent}

\* C13 amended: without a HIGH expert the overall priority is MEDIUM when
\* some expert is MEDIUM or names no priority, and LOW otherwise: for an
\* empty collection and when every expert is LOW.
C13_MediumOrLowWithoutHigh ==
  (Synthesized /\ ExpertsSupplied /\ ~SomeExpertHigh) =>
    /\ SomeExpertMedium => ret.overallPriority = "MEDIUM"
    /\ ~SomeExpertMedium => ret.overallPriority = "LOW"

\* Two experts, both LOW.
C13_Witness ==
  /\ Synthesized /\ ExpertsSupplied
  /\ Len(SuppliedExperts) = 2
  /\ \A i \in 1..2 : SuppliedExperts[i].priority = Present("LOW")
  /\ ret.overallPriority = "LOW"

HighCount ==
  Cardinality({i \in 1..Len(SuppliedExperts) :
                 SuppliedExperts[i].priority = Present("HIGH")})

\* C15: conflictResolution is the "multiple high-priority" message when at
\* least 2 experts are HIGH, else the "multi-expert consensus" message when
\* at least 3 experts were supplied, else the "aligned" message; 3 experts
\* with 2 HIGH get the first message, not the consensus one.
C15_ConflictByFirstMatch ==
  (Synthesized /\ ExpertsSupplied /\ path = "returned") =>
    /\ ret.conflictResolution =
         (IF HighCount >= 2 THEN MultipleHighMessage(arg.copy)
          ELSE IF Len(SuppliedExperts) >= 3 THEN ConsensusMessage(arg.copy)
          ELSE AlignedMessage(arg.copy))
    /\ (Len(SuppliedExperts) >= 3 /\ HighCount >= 2) =>
         ret.conflictResolution # ConsensusMessage(arg.copy)

\* Three experts, two of them HIGH.
C15_Witness ==
  /\ Synthesized /\ ExpertsSupplied /\ path = "returned"
  /\ Len(SuppliedExperts) = 3
  /\ HighCount = 2
  /\ ret.conflictResolution = MultipleHighMessage(arg.copy)

\* C29: in every result of the try block overallPriority and
\* conflictResolution agree: the "multiple high-priority" message implies
\* HIGH or CRITICAL, CRITICAL implies that the message is not the "aligned"
\* one, and HIGH or CRITICAL implies that some supplied expert is HIGH (an
\* expert without a priority is MEDIUM for the one and not HIGH for the
\* other).
C29_PriorityAgreesWithConflict ==
  (Synthesized /\ path = "returned") =>
    /\ ret.conflictResolution = MultipleHighMessage(arg.copy) =>
         ret.overallPriority \in {"HIGH", "CRITICAL"}
    /\ ret.overallPriority = "CRITICAL" =>
         ret.conflictResolution # AlignedMessage(arg.copy)
    /\ ret.overallPriority \in {"HIGH", "CRITICAL"} => SomeExpertHigh

\* One HIGH expert among three, one of them without a priority: CRITICAL
\* with the consensus message.
C29_Witness ==
  /\ Synthesized /\ path = "returned"
  /\ Len(SuppliedExperts) = 3
  /\ HighCount = 1
  /\ \E i \in 1..3 : SuppliedExperts[i].priority = Absent
  /\ ret.overallPriority = "CRITICAL"
  /\ ret.conflictResolution = ConsensusMessage(arg.copy)

\* The risk table in the order the claim gives it; a rule is named by two
\* of its alternatives and stands for all of them.
RiskScoreInStatedOrder(risk) ==
  LET riskLower == toLowerCase(risk)
  IN IF match(riskLower, {"security", "breach", "vulnerability", "attack"}) THEN 10
     ELSE IF match(riskLower, {"data loss", "corruption", "crash"}) THEN 9
     ELSE IF match(riskLower, {"production", "downtime", "failure"}) THEN 8
     ELSE IF match(riskLower, {"compliance", "legal", "regulation"}) THEN 8
     ELSE IF match(riskLower, {"performance", "slow", "timeout"}) THEN 7
     ELSE IF match(riskLower, {"user", "experience", "usability"}) THEN 6
     ELSE 1

\* C22 as stated: the risks are ranked by the score of the first rule
\* matched in the order security/breach 10, data loss/crash 9,
\* production/downtime 8, compliance/legal 8, performance/slow 7,
\* user/experience 6, else 1, so that a risk that mentions legal scores 8
\* even when it mentions slow or user too.
C22_RiskScoreInStatedOrder ==
  (Synthesized /\ path = "returned") =>
    Ranked(ret.criticalRisks, RiskCandidates,
           [risk \in {RiskCandidates[i] : i \in 1..Len(RiskCandidates)} |->
              RiskScoreInStatedOrder(risk)])

\* The action table of the claim; a rule is named by some of its
\* alternatives and stands for all of them.
ActionScoreAsStated(action) ==
  LET actionLower == toLowerCase(action)
  IN IF match(actionLower, {"security", "vulnerability", "fix", "patch"}) THEN 10
     ELSE IF match(actionLower, {"test", "validation", "verify"}) THEN 9
     ELSE IF match(actionLower, {"backup", "monitor", "log"}) THEN 8
     ELSE IF match(actionLower, {"implement", "create", "build"}) THEN 7
     ELSE IF match(actionLower, {"optimize", "improve", "enhance"}) THEN 6
     ELSE IF match(actionLower, {"document", "plan", "design"}) THEN 5
     ELSE 1

\* C23 as stated: each deduplicated action is ranked in unifiedPlan by the
\* table security/fix/patch 10, test/verify 9, backup/monitor/log 8,
\* implement/build 7, optimize/improve 6, document/plan/design 5, else 1,
\* first rule matched, in either copy.
C23_PlanRankedByStatedTable ==
  (Synthesized /\ path = "returned") =>
    Ranked(ret.unifiedPlan, PlanCandidates,
           [action \in {PlanCandidates[i] : i \in 1..Len(PlanCandidates)} |->
              ActionScoreAsStated(action)])

\* The keyword groups of the success criteria, in the order of the code.
KeywordGroups ==
  << {"performance", "slow", "speed"}, {"security", "auth", "login"},
     {"user", "interface", "design"}, {"bug", "error", "fix"} >>

GroupsMatched ==
  {g \in 1..Len(KeywordGroups) : match(toLowerCase(arg.userQuery), KeywordGroups[g])}

Baseline ==
  IF arg.copy = "part_000" THEN "Implementation completed successfully"
  ELSE "WHAT: Core objective achieved. MEASURE: User value delivered."

\* The criteria a keyword group adds.
TriggeredBy(g) ==
  IF arg.copy = "part_000"
  THEN << {"Performance targets met", "No performance regressions"},
          {"Security vulnerabilities addressed", "Compliance requirements met"},
          {"User experience improved", "Accessibility requirements met"},
          {"Bug resolved", "No new issues introduced"} >>[g]
  ELSE << {"WHAT: Performance acceptable to users. WHY: User satisfaction matters most."},
          {"WHAT: System secure. WHY: User trust is paramount."},
          {"WHAT: Users can accomplish goals. WHY: Usability drives adoption."},
          {"WHAT: Issue resolved. WHY: Restore functionality. HOW: LLM's discretion."} >>[g]

Trailing == {"All tests passing", "Documentation updated"}

\* The place of a criterion in the order of the claim: the baseline, the
\* groups performance, security, user, bug, then the trailing strings.
CriterionPlace(criterion) ==
  IF criterion = Baseline THEN 0
  ELSE IF \E g \in GroupsMatched : criterion \in TriggeredBy(g)
  THEN CHOOSE g \in GroupsMatched : criterion \in TriggeredBy(g)
  ELSE IF criterion \in Trailing THEN 5
  ELSE 6

\* C24 as stated: successCriteria has at most 4 elements, no two equal; the
\* first is the baseline; the criteria of the matched keyword groups follow
\* in the order performance, security, user, bug; "All tests passing" and
\* "Documentation updated" are both dropped exactly when 3 or more keyword
\* groups match the query.
C24_CriteriaWithinFour ==
  (Synthesized /\ path = "returned") =>
    LET criteria == ret.successCriteria
    IN /\ Len(criteria) <= 4
       /\ NoDuplicates(criteria)
       /\ criteria[1] = Baseline
       /\ \A i \in 1..Len(criteria) : CriterionPlace(criteria[i]) <= 5
       /\ \A i, j \in 1..Len(criteria) :
            i < j => CriterionPlace(criteria[i]) <= CriterionPlace(criteria[j])
       /\ (\A i \in 1..Len(criteria) : criteria[i] \notin Trailing)
            <=> Cardinality(GroupsMatched) >= 3

(***************************************************************************)
(* Properties of the synthesizer on keyed inputs.                          *)
(***************************************************************************)
WrittenKeys == arg.expertResponses.keys

DistinctKeys == {WrittenKeys[i] : i \in 1..Len(WrittenKeys)}

IntegerKeys == [key \in {"2", "10"} |-> IF key = "2" THEN 2 ELSE 10]

FirstWritten(key) ==
  CHOOSE i \in 1..Len(WrittenKeys) :
    WrittenKeys[i] = key /\ \A j \in 1..(i - 1) : WrittenKeys[j] # key

\* The value of a key in the mapping: the last one written under it.
ValueAt(key) ==
  arg.expertResponses.items[
    CHOOSE i \in 1..Len(WrittenKeys) :
      WrittenKeys[i] = key
        /\ \A j \in (i + 1)..Len(WrittenKeys) : WrittenKeys[j] # key]

\* The mapping iterates its integer keys first, ascending, and then its
\* names in the order they first appear.
Precedes(a, b) ==
  IF a \in DOMAIN IntegerKeys /\ b \in DOMAIN IntegerKeys
  THEN IntegerKeys[a] < IntegerKeys[b]
  ELSE IF a \in DOMAIN IntegerKeys THEN TRUE
  ELSE IF b \in DOMAIN IntegerKeys THEN FALSE
  ELSE FirstWritten(a) < FirstWritten(b)

\* The place of a key in the iteration order.
PlaceOf(key) == 1 + Cardinality({other \in DistinctKeys : Precedes(other, key)})

ValuesInIterationOrder ==
  [k \in 1..Cardinality(DistinctKeys) |->
     ValueAt(CHOOSE key \in DistinctKeys : PlaceOf(key) = k)]

KeyedSupplied == Synthesized /\ Len(WrittenKeys) > 0

\* C21: the result for a keyed mapping of expert responses is the result for
\* the sequence of the mapping's values in its iteration order; the keys play
\* no part in overallPriority, conflictResolution, unifiedPlan,
\* criticalRisks, nextSteps or successCriteria.
C21_MappingAsSequenceOfValues ==
  KeyedSupplied =>
    LET sequence ==
          SynthesizeExecute(
            [arg EXCEPT !.expertResponses =
               Document("array", "", ValuesInIterationOrder)])
    IN \A field \in {"overallPriority", "conflictResolution", "unifiedPlan",
                     "criticalRisks", "nextSteps", "successCriteria"} :
         ret[field] = sequence[field]

\* Integer keys written in descending order and one of them written twice:
\* the values are not listed as written, and the plan shows it.
C21_Witness ==
  /\ KeyedSupplied
  /\ WrittenKeys = <<"10", "2", "10">>
  /\ ValuesInIterationOrder # arg.expertResponses.items
  /\ ret.unifiedPlan #
       SynthesizeExecute(
         [arg EXCEPT !.expertResponses =
            Document("array", "", arg.expertResponses.items)]).unifiedPlan

(***************************************************************************)
(* Properties of the synthesizer on loosely typed inputs.                  *)
(***************************************************************************)
ResponseFields ==
  {"overallPriority", "conflictResolution", "unifiedPlan", "criticalRisks",
   "nextSteps", "successCriteria"}

\* C12: synthesize never raises: whatever expertResponses holds, it returns
\* an object with overallPriority, conflictResolution, unifiedPlan,
\* criticalRisks, nextSteps and successCriteria, and overallPriority is one
\* of CRITICAL, HIGH, MEDIUM, LOW.
C12_NeverRaises ==
  Synthesized =>
    /\ ResponseFields \subseteq DOMAIN ret
    /\ ret.overallPriority \in {"CRITICAL", "HIGH", "MEDIUM", "LOW"}

\* The executive copy meets an action that is a number: a TypeError, caught.
C12_Witness ==
  /\ Synthesized
  /\ arg.copy = "part_001"
  /\ arg.expertResponses.kind = "array"
  /\ Len(SuppliedExperts) = 1
  /\ SuppliedExperts[1].immediateActions = Present(<<"#5">>)
  /\ ret.conflictResolution = "Parsing error: action.includes is not a function"

\* The response is the fixed fallback object.
FallbackReturned ==
  /\ StartsWith(ret.conflictResolution, "Parsing error: ")
  /\ ret.overallPriority = "MEDIUM"
  /\ ret.unifiedPlan =
       <<"Clarify requirements", "Implement step by step", "Test thoroughly">>
  /\ ret.criticalRisks = <<"Unclear requirements", "Implementation complexity">>
  /\ ret.nextSteps = <<"Review expert feedback", "Create implementation plan">>
  /\ ret.successCriteria =
       <<"Requirements met", "No regressions", "Stakeholder approval">>

DecodeFails == arg.expertResponses.kind = "malformed"

SomeElementNull ==
  /\ arg.expertResponses.kind \in {"array", "object"}
  /\ \E i \in 1..Len(SuppliedExperts) : SuppliedExperts[i].isNull

\* The distinct values of a field over the supplied experts.
SuppliedValues(field) ==
  LET all == SuppliedField(field, Len(SuppliedExperts))
  IN {all[i] : i \in 1..Len(all)}

\* A value that is not a string reaches a string method: in the executive
\* copy every action does, in the plain copy the actions do when there are
\* two or more distinct ones, and so do the risks in both copies.
NonStringUsedAsString ==
  /\ arg.expertResponses.kind \in {"array", "object"}
  /\ LET actions == SuppliedValues("immediateActions")
         risks == SuppliedValues("risks")
     IN \/ /\ \E a \in actions : ~isString(a)
           /\ arg.copy = "part_001" \/ Cardinality(actions) >= 2
        \/ /\ \E r \in risks : ~isString(r)
           /\ Cardinality(risks) >= 2

OnlyUserQuery ==
  CodeLocatorInput(arg.userQuery, Absent, Absent, Absent)

\* The locator was called once with the query alone, the call returned and
\* its locations are the response's codeLocations.
LocatorConsultedOnce ==
  /\ Len(locatorCalls) = 1
  /\ locatorCalls[1].input = OnlyUserQuery
  /\ locatorCalls[1].result = CodeLocatorExecute(arg.locator, OnlyUserQuery)
  /\ ret.codeLocations = Present(locatorCalls[1].result.locations)

LocatorNotConsulted ==
  /\ locatorCalls = <<>>
  /\ ret.codeLocations = Absent

\* C20 as stated: with includeCodeLocation set and a text that decodes, the
\* locator is called exactly once with the userQuery alone, before the
\* response is returned, and codeLocations are its locations; with
\* includeCodeLocation unset, and in the fallback, it is not consulted and
\* codeLocations is absent.
C20_LocatorOnceWhenDecoded ==
  Synthesized =>
    /\ (arg.includeCodeLocation /\ ~DecodeFails) => LocatorConsultedOnce
    /\ (~arg.includeCodeLocation \/ FallbackReturned) => LocatorNotConsulted

\* C20 amended: the locator is called exactly once, with the userQuery
\* alone, when includeCodeLocation is set and the try block reaches the
\* call, that is when the normal response is returned; the call has
\* returned by then and codeLocations are its locations.  With
\* includeCodeLocation unset, and in the fallback, it is not consulted and
\* codeLocations is absent.
C20_LocatorOnceWhenReached ==
  Synthesized =>
    /\ (arg.includeCodeLocation /\ ~FallbackReturned) => LocatorConsultedOnce
    /\ (~arg.includeCodeLocation \/ FallbackReturned) => LocatorNotConsulted

\* The part_002 locator answers a query about a duplicate import.
C20_Witness ==
  /\ Synthesized /\ arg.includeCodeLocation /\ ~FallbackReturned
  /\ arg.locator = "part_002"
  /\ arg.userQuery = "Remove the duplicate import"
  /\ Len(locatorCalls) = 1
  /\ IsPresent(ret.codeLocations)
  /\ Len(ValueOf(ret.codeLocations)) = 5

(***************************************************************************)
(* Properties of the expert tools.                                         *)
(***************************************************************************)
TableTools ==
  {"consult_security_expert", "consult_performance_expert",
   "consult_designer", "consult_devops_expert", "consult_manager",
   "consult_edge_cases_expert"}

ExpertTools == TableTools \cup {"consult_software_engineer"}

Grades == {"HIGH", "MEDIUM", "LOW"}

\* C11: every consult_<domain> tool, for every query and every combination
\* of optional inputs, returns a priority and a confidence among HIGH,
\* MEDIUM, LOW and non-empty immediateActions, risks and questions.
C11_UniformExpertResponse ==
  op \in ExpertTools =>
    /\ ret.priority \in Grades
    /\ ret.confidence \in Grades
    /\ Len(ret.immediateActions) > 0
    /\ Len(ret.risks) > 0
    /\ Len(ret.questions) > 0

\* The software engineer is given an empty code snippet and still asks.
C11_Witness ==
  /\ op = "consult_software_engineer"
  /\ arg.codeSnippet = Present("")
  /\ arg.userQuery = "add"
  /\ ret.questions = <<"Can you show me the specific code causing issues?">>

\* The regex chain and the response table of a tool, as its source lists them.
ChainOf(tool) ==
  CASE tool = "consult_software_engineer" -> EngineeringCategories
    [] tool = "consult_security_expert" -> SecurityCategories
    [] tool = "consult_performance_expert" -> PerformanceCategories
    [] tool = "consult_designer" -> DesignerCategories
    [] tool = "consult_devops_expert" -> DevOpsCategories
    [] tool = "consult_manager" -> ManagerCategories
    [] tool = "consult_edge_cases_expert" -> EdgeCasesCategories

TableOf(tool) ==
  CASE tool = "consult_software_engineer" -> EngineeringResponses
    [] tool = "consult_security_expert" -> SecurityResponses
    [] tool = "consult_performance_expert" -> PerformanceResponses
    [] tool = "consult_designer" -> DesignerResponses
    [] tool = "consult_devops_expert" -> DevOpsResponses
    [] tool = "consult_manager" -> ManagerResponses
    [] tool = "consult_edge_cases_expert" -> EdgeCasesResponses

\* The positions of the chain whose regex matches the query.
Hits(chain, query) ==
  {i \in 1..Len(chain) : matchCategory(query, chain[i])}

\* The category of the first regex that matches, `general` when none does.
FirstMatch(chain, query) ==
  LET hits == Hits(chain, query)
  IN IF hits = {} THEN "general"
     ELSE chain[CHOOSE i \in hits : \A j \in hits : i <= j].name

\* The response carries the five fields of a table entry.
AnswersWith(entry) ==
  /\ ret.priority = entry.priority
  /\ ret.confidence = entry.confidence
  /\ ret.coreInsight = entry.coreInsight
  /\ ret.immediateActions = entry.immediateActions
  /\ ret.risks = entry.risks

\* The response is the entry of the first matching category of the tool's
\* chain, and the `general` entry exactly when no regex matches.
AnswersByFirstMatch ==
  LET query == toLowerCase(arg.userQuery)
  IN /\ AnswersWith(TableOf(op)[FirstMatch(ChainOf(op), query)])
     /\ AnswersWith(TableOf(op).general) <=> Hits(ChainOf(op), query) = {}

\* C16 as stated: in every expert tool the category is that of the first
\* pattern, in the listed order, that matches the lower-cased query, general
\* exactly when none matches, and the response is that category's entry.
C16_FirstMatchInEveryExpert ==
  op \in ExpertTools => AnswersByFirstMatch

\* The query speaks of an import and of a duplicate.
BoundaryQuery(query) ==
  match(query, {"import", "from"}) /\ match(query, {"duplicate", "same"})

\* The query speaks of an import, of scheduling and of the assistant.
CrossModuleQuery(query) ==
  /\ match(query, {"import", "from"})
  /\ match(query, {"scheduling", "calendar"})
  /\ match(query, {"assistant", "operation"})

\* C16 amended: the statement holds in the six table experts.  The software
\* engineer classifies a query about an import and a duplicate as
\* `architecture` before any pattern is tried, and answers a query about an
\* import, scheduling and the assistant with a fixed cross-module response
\* instead of the table entry; otherwise it too answers by first match.
C16_FirstMatchButEngineer ==
  /\ op \in TableTools => AnswersByFirstMatch
  /\ op = "consult_software_engineer" =>
       LET query == toLowerCase(arg.userQuery)
       IN IF CrossModuleQuery(query) THEN AnswersWith(CrossModuleResponse)
          ELSE IF BoundaryQuery(query)
          THEN AnswersWith(EngineeringResponses.architecture)
          ELSE AnswersByFirstMatch

\* A bug query about an import, the calendar and an operation gets the
\* cross-module response, which no table entry is.
C16_Witness ==
  /\ op = "consult_software_engineer"
  /\ arg.userQuery = "Fix messy import calendar operation"
  /\ ret.coreInsight = CrossModuleResponse.coreInsight
  /\ Len(ret.immediateActions) = 5

BugAndRefactor(query) ==
  /\ match(query, {"bug", "error", "broken", "fix", "debug"})
  /\ match(query, {"refactor", "clean", "messy", "improve"})

\* C17 as stated: the software engineer answers every query that matches
\* both the bug pattern and the refactor pattern with the bug entry,
\* whatever else the query says.
C17_BugBeforeRefactorAlways ==
  (op = "consult_software_engineer"
     /\ BugAndRefactor(toLowerCase(arg.userQuery))) =>
    AnswersWith(EngineeringResponses.bug)

\* C17 amended: such a query gets the bug entry unless it speaks of an
\* import and a duplicate, which makes it `architecture`, or of an import,
\* scheduling and the assistant, which gets the cross-module response.
C17_BugBeforeRefactorUnlessOverridden ==
  (op = "consult_software_engineer"
     /\ BugAndRefactor(toLowerCase(arg.userQuery))) =>
    LET query == toLowerCase(arg.userQuery)
    IN IF CrossModuleQuery(query) THEN AnswersWith(CrossModuleResponse)
       ELSE IF BoundaryQuery(query)
       THEN AnswersWith(EngineeringResponses.architecture)
       ELSE AnswersWith(EngineeringResponses.bug)

\* Bug and refactor words next to an import and a duplicate: architecture.
C17_Witness ==
  /\ op = "consult_software_engineer"
  /\ arg.userQuery = "Fix messy duplicate import"
  /\ AnswersWith(EngineeringResponses.architecture)

\* C30: the software engineer answers a query that has an import term, a
\* scheduling term and an assistant term with priority and confidence HIGH
\* and the fixed cross-module lists of 5 actions and 3 risks, whichever
\* category the classifier chose; every other query gets the entry of its
\* category unchanged.
C30_CrossModuleOverride ==
  op = "consult_software_engineer" =>
    LET query == toLowerCase(arg.userQuery)
        category ==
          IF BoundaryQuery(query) THEN "architecture"
          ELSE FirstMatch(EngineeringCategories, query)
    IN IF CrossModuleQuery(query)
       THEN /\ ret.priority = "HIGH"
            /\ ret.confidence = "HIGH"
            /\ ret.immediateActions =
                 <<"Map out current import dependencies between modules",
                   "Move assistant-specific operations to assistantOperations module",
                   "Remove cross-module imports from mealScheduling",
                   "Create proper interfaces between modules",
                   "Test each module in isolation">>
            /\ ret.risks =
                 <<"Breaking existing functionality during refactor",
                   "Hidden dependencies not immediately visible",
                   "Regression in scheduling or assistant features">>
       ELSE AnswersWith(EngineeringResponses[category])

\* A refactor query with all three terms: the entry of `refactor` has
\* priority MEDIUM, the response HIGH.
C30_Witness ==
  /\ op = "consult_software_engineer"
  /\ arg.userQuery = "Refactor import calendar operation"
  /\ EngineeringResponses.refactor.priority = "MEDIUM"
  /\ ret.priority = "HIGH"
  /\ Len(ret.immediateActions) = 5
  /\ Len(ret.risks) = 3

====
